---- MODULE Spec2Model ----
(***************************************************************************)
(* Verification model of the HLS cross-origin relay                        *)
(* (shafat-96/universel-m3u8-proxy).                                        *)
(*                                                                         *)
(* Strings are TLA+ strings; s[i:j] of the Go source is Slice(s, i, j).    *)
(* The repository holds several revisions of each handler file; the       *)
(* variable build says which revision of which handler family is deployed. *)
(***************************************************************************)
EXTENDS Integers, Sequences, FiniteSets, TLC

(***************************************************************************)
(* Go package strings                                                      *)
(***************************************************************************)
Slice(s, i, j) == SubSeq(s, i + 1, j)

CharAt(s, i) == SubSeq(s, i + 1, i + 1)

HasPrefix(s, p) == Len(s) >= Len(p) /\ SubSeq(s, 1, Len(p)) = p

HasSuffix(s, p) == Len(s) >= Len(p) /\ SubSeq(s, Len(s) - Len(p) + 1, Len(s)) = p

TrimPrefix(s, p) == IF HasPrefix(s, p) THEN Slice(s, Len(p), Len(s)) ELSE s

TrimSuffix(s, p) == IF HasSuffix(s, p) THEN Slice(s, 0, Len(s) - Len(p)) ELSE s

MatchesAt(s, sub, i) == i + Len(sub) <= Len(s) /\ Slice(s, i, i + Len(sub)) = sub

Index(s, sub) ==
    LET First(hits) ==
            IF hits = {} THEN -1 ELSE CHOOSE i \in hits : \A j \in hits : i <= j
    IN  First({i \in 0..(Len(s) - Len(sub)) : MatchesAt(s, sub, i)})

LastIndex(s, sub) ==
    LET Last(hits) ==
            IF hits = {} THEN -1 ELSE CHOOSE i \in hits : \A j \in hits : i >= j
    IN  Last({i \in 0..(Len(s) - Len(sub)) : MatchesAt(s, sub, i)})

Contains(s, sub) == \E i \in 0..(Len(s) - Len(sub)) : MatchesAt(s, sub, i)

IsSpace(c) == c \in {" ", "\t", "\n", "\r"}

\* strings.TrimSpace: the loops from the start and from the end of s
RECURSIVE TrimLeftSpace(_)
TrimLeftSpace(s) ==
    IF s # "" /\ IsSpace(SubSeq(s, 1, 1)) THEN TrimLeftSpace(SubSeq(s, 2, Len(s)))
    ELSE s

RECURSIVE TrimRightSpace(_)
TrimRightSpace(s) ==
    IF s # "" /\ IsSpace(SubSeq(s, Len(s), Len(s)))
    THEN TrimRightSpace(SubSeq(s, 1, Len(s) - 1))
    ELSE s

TrimSpace(s) == TrimRightSpace(TrimLeftSpace(s))

\* strings.Cut(s, sep)
Cut(s, sep) ==
    LET At(i) ==
            IF i = -1 THEN [before |-> s, after |-> "", found |-> FALSE]
            ELSE [before |-> Slice(s, 0, i),
                  after |-> Slice(s, i + Len(sep), Len(s)), found |-> TRUE]
    IN  At(Index(s, sep))

CutBefore(s, sep) == Cut(s, sep).before

CutAfter(s, sep) == Cut(s, sep).after

RECURSIVE Split(_, _)
Split(s, sep) ==
    LET At(c) == IF c.found THEN <<c.before>> \o Split(c.after, sep) ELSE <<s>>
    IN  At(Cut(s, sep))

\* strings.SplitN(s, sep, 2)
SplitN2(s, sep) ==
    LET At(c) == IF c.found THEN <<c.before, c.after>> ELSE <<s>>
    IN  At(Cut(s, sep))

RECURSIVE Join(_, _)
Join(elems, sep) ==
    IF Len(elems) = 0 THEN ""
    ELSE IF Len(elems) = 1 THEN elems[1]
    ELSE elems[1] \o sep \o Join(Tail(elems), sep)

\* strings.Replace(s, old, new, 1): the first occurrence only
ReplaceFirst(s, old, new) ==
    LET At(c) == IF c.found THEN c.before \o new \o c.after ELSE s
    IN  At(Cut(s, old))

\* strconv.Itoa of a number that is not negative
RECURSIVE Itoa(_)
Itoa(n) ==
    IF n < 10 THEN CharAt("0123456789", n)
    ELSE Itoa(n \div 10) \o CharAt("0123456789", n % 10)

UpperLetters == "ABCDEFGHIJKLMNOPQRSTUVWXYZ"

LowerLetters == "abcdefghijklmnopqrstuvwxyz"

\* the printable ASCII characters 0x20..0x5F and 0x61..0x7E in code order
PrintableLow == " !\"#$%&'()*+,-./0123456789:;<=>?@ABCDEFGHIJKLMNOPQRSTUVWXYZ[\\]^_"

PrintableHigh == "abcdefghijklmnopqrstuvwxyz{|}~"

\* the characters of a string, as a set
CharsOf(s) == {CharAt(s, i) : i \in 0..(Len(s) - 1)}

\* the characters strings are made of
Chars == CharsOf(PrintableLow) \cup CharsOf(PrintableHigh) \cup {"\t", "\n", "\r"}

Letters == CharsOf(UpperLetters) \cup CharsOf(LowerLetters)

Digits == CharsOf("0123456789")

LowerOf ==
    [c \in Chars |->
        LET At(i) == IF i = -1 THEN c ELSE CharAt(LowerLetters, i)
        IN  At(Index(UpperLetters, c))]

UpperOf ==
    [c \in Chars |->
        LET At(i) == IF i = -1 THEN c ELSE CharAt(UpperLetters, i)
        IN  At(Index(LowerLetters, c))]

\* the string of table[c] for the characters c of positions lo..hi-1 of s
RECURSIVE MapChars(_, _, _, _)
MapChars(s, lo, hi, table) ==
    IF lo >= hi THEN ""
    ELSE IF hi - lo = 1 THEN table[CharAt(s, lo)]
    ELSE MapChars(s, lo, (lo + hi) \div 2, table)
             \o MapChars(s, (lo + hi) \div 2, hi, table)

ToLower(s) == MapChars(s, 0, Len(s), LowerOf)

ToUpper(s) == MapChars(s, 0, Len(s), UpperOf)

(***************************************************************************)
(* Go package net/url: escaping                                            *)
(***************************************************************************)
HexDigits == "0123456789ABCDEF"

CodeOf ==
    [c \in Chars |->
        LET At(low, high) ==
                IF low # -1 THEN 32 + low
                ELSE IF high # -1 THEN 97 + high
                ELSE IF c = "\t" THEN 9 ELSE IF c = "\n" THEN 10 ELSE 13
        IN  At(Index(PrintableLow, c), Index(PrintableHigh, c))]

Code(c) == CodeOf[c]

\* a byte outside the modelled character set decodes to "?"
Chr(n) ==
    IF n = 9 THEN "\t" ELSE IF n = 10 THEN "\n" ELSE IF n = 13 THEN "\r"
    ELSE IF n >= 32 /\ n <= 95 THEN CharAt(PrintableLow, n - 32)
    ELSE IF n >= 97 /\ n <= 126 THEN CharAt(PrintableHigh, n - 97)
    ELSE "?"

IsAlnum(c) == c \in Letters \/ c \in Digits

HexChars == CharsOf("0123456789ABCDEFabcdef")

IsHex(c) == c \in HexChars

UnHexOf == [c \in HexChars |-> Index(HexDigits, UpperOf[c])]

UnHex(c) == UnHexOf[c]

PercentEncode(c) ==
    LET Hex(n) == "%" \o CharAt(HexDigits, n \div 16) \o CharAt(HexDigits, n % 16)
    IN  Hex(Code(c))

\* shouldEscape(c, encodeQueryComponent)
QueryEscapeChar(c) ==
    IF IsAlnum(c) \/ c \in {"-", "_", ".", "~"} THEN c
    ELSE IF c = " " THEN "+"
    ELSE PercentEncode(c)

QueryEscapeOf == [c \in Chars |-> QueryEscapeChar(c)]

\* url.QueryEscape
QueryEscape(s) == MapChars(s, 0, Len(s), QueryEscapeOf)

\* shouldEscape(c, encodePath)
PathEscapeChar(c) ==
    IF IsAlnum(c) \/ c \in {"-", "_", ".", "~", "$", "&", "+", ",", "/", ":", ";", "=", "@"}
    THEN c
    ELSE PercentEncode(c)

PathEscapeOf == [c \in Chars |-> PathEscapeChar(c)]

\* (*URL).EscapedPath of a path parsed from its default encoding
EscapePath(s) == MapChars(s, 0, Len(s), PathEscapeOf)

\* every "%" is followed by two hex digits
ValidEscapes(s) ==
    \A i \in 0..(Len(s) - 1) :
        CharAt(s, i) = "%" =>
            /\ i + 2 < Len(s)
            /\ IsHex(CharAt(s, i + 1))
            /\ IsHex(CharAt(s, i + 2))

\* the decoded text of positions lo..hi-1 of a string with valid escapes
RECURSIVE Decode(_, _, _, _)
Decode(s, lo, hi, plusIsSpace) ==
    IF lo >= hi THEN ""
    ELSE IF hi - lo = 1
    THEN IF CharAt(s, lo) = "%"
         THEN Chr(16 * UnHex(CharAt(s, lo + 1)) + UnHex(CharAt(s, lo + 2)))
         ELSE IF (lo >= 1 /\ CharAt(s, lo - 1) = "%")
                    \/ (lo >= 2 /\ CharAt(s, lo - 2) = "%") THEN ""
         ELSE IF CharAt(s, lo) = "+" /\ plusIsSpace THEN " "
         ELSE CharAt(s, lo)
    ELSE Decode(s, lo, (lo + hi) \div 2, plusIsSpace)
             \o Decode(s, (lo + hi) \div 2, hi, plusIsSpace)

\* unescape(s, mode)
Unescape(s, plusIsSpace) ==
    IF ValidEscapes(s) THEN [ok |-> TRUE, s |-> Decode(s, 0, Len(s), plusIsSpace)]
    ELSE [ok |-> FALSE, s |-> ""]

\* url.QueryUnescape
QueryUnescape(s) == Unescape(s, TRUE)

\* url.PathUnescape
PathUnescape(s) == Unescape(s, FALSE)

(***************************************************************************)
(* Go package net/url: Parse, ResolveReference, String, Query              *)
(***************************************************************************)
\* stringContainsCTLByte
HasCTL(s) == \E i \in 0..(Len(s) - 1) : CharAt(s, i) \in {"\t", "\n", "\r"}

IsLetter(c) == c \in Letters

\* getScheme: the scheme ends at the first ":" that only letters, digits,
\* "+", "-" and "." precede, the first of them a letter
GetScheme(s) ==
    LET At(i) ==
            IF i = -1 \/ CharAt(s, i) # ":"
            THEN [ok |-> TRUE, scheme |-> "", rest |-> s]
            ELSE IF i = 0 THEN [ok |-> FALSE, scheme |-> "", rest |-> ""]
            ELSE [ok |-> TRUE, scheme |-> Slice(s, 0, i),
                  rest |-> Slice(s, i + 1, Len(s))]
        First(stops) ==
            IF stops = {} THEN -1 ELSE CHOOSE k \in stops : \A j \in stops : k <= j
    IN  At(First({i \in 0..(Len(s) - 1) :
                     /\ ~IsLetter(CharAt(s, i))
                     /\ ~(i > 0 /\ CharAt(s, i) \in Digits \cup {"+", "-", "."})}))

BadURL ==
    [ok |-> FALSE, scheme |-> "", opaque |-> "", host |-> "", path |-> "",
     query |-> "", fragment |-> ""]

\* url.Parse
ParseURL(rawURL) ==
    LET Done(scheme, opaque, host, path, qry, frag) ==
            IF ~path.ok \/ ~frag.ok THEN BadURL
            ELSE [ok |-> TRUE, scheme |-> scheme, opaque |-> opaque,
                  host |-> host, path |-> path.s, query |-> qry,
                  fragment |-> frag.s]
        Hier(scheme, rest, qry, frag, hasAuthority, authority) ==
            Done(scheme, "", IF hasAuthority THEN authority ELSE "",
                 PathUnescape(IF hasAuthority
                              THEN Slice(rest, 2 + Len(authority), Len(rest))
                              ELSE rest),
                 qry, frag)
        Rest(scheme, rest, qry, frag) ==
            IF ~HasPrefix(rest, "/") /\ scheme # ""
            THEN Done(scheme, rest, "", [ok |-> TRUE, s |-> ""], qry, frag)
            ELSE IF ~HasPrefix(rest, "/") /\ Contains(CutBefore(rest, "/"), ":")
            THEN BadURL
            ELSE Hier(scheme, rest, qry, frag,
                      HasPrefix(rest, "//")
                          /\ (scheme # "" \/ ~HasPrefix(rest, "///")),
                      CutBefore(Slice(rest, 2, Len(rest)), "/"))
        Queried(scheme, c, frag) == Rest(scheme, c.before, c.after, frag)
        Schemed(u, sch, frag) ==
            IF HasCTL(u) \/ ~sch.ok THEN BadURL
            ELSE Queried(ToLower(sch.scheme), Cut(sch.rest, "?"), frag)
        Fragment(c) == Schemed(c.before, GetScheme(c.before), PathUnescape(c.after))
    IN  Fragment(Cut(rawURL, "#"))

\* resolvePath: the loop over the "/"-separated elements of the joined path
RECURSIVE ResolveElems(_, _, _, _)
ResolveElems(elems, k, dst, first) ==
    LET Up(str, index) ==
            IF index = -1 THEN ResolveElems(elems, k + 1, "/", TRUE)
            ELSE ResolveElems(elems, k + 1, "/" \o Slice(str, 0, index), first)
        End(d) == IF Len(d) > 1 /\ CharAt(d, 1) = "/" THEN Slice(d, 1, Len(d)) ELSE d
    IN  IF k > Len(elems)
        THEN End(IF elems[Len(elems)] \in {".", ".."} THEN dst \o "/" ELSE dst)
        ELSE IF elems[k] = "." THEN ResolveElems(elems, k + 1, dst, FALSE)
        ELSE IF elems[k] = ".."
        THEN Up(Slice(dst, 1, Len(dst)), LastIndex(Slice(dst, 1, Len(dst)), "/"))
        ELSE ResolveElems(elems, k + 1,
                          dst \o (IF first THEN "" ELSE "/") \o elems[k], FALSE)

ResolvePath(base, ref) ==
    LET Full(full) ==
            IF full = "" THEN "" ELSE ResolveElems(Split(full, "/"), 1, "/", TRUE)
    IN  Full(IF ref = "" THEN base
             ELSE IF CharAt(ref, 0) # "/"
             THEN Slice(base, 0, LastIndex(base, "/") + 1) \o ref
             ELSE ref)

\* (*URL).ResolveReference
ResolveReference(u, ref) ==
    IF ref.scheme # "" \/ ref.host # ""
    THEN [ref EXCEPT !.scheme = IF ref.scheme = "" THEN u.scheme ELSE ref.scheme,
                     !.path = IF ref.opaque # "" THEN ref.path
                              ELSE ResolvePath(ref.path, "")]
    ELSE [ok |-> TRUE, scheme |-> u.scheme, opaque |-> "", host |-> u.host,
          path |-> ResolvePath(u.path, ref.path),
          query |-> IF ref.path = "" /\ ref.query = "" THEN u.query ELSE ref.query,
          fragment |-> IF ref.path = "" /\ ref.query = "" /\ ref.fragment = ""
                       THEN u.fragment ELSE ref.fragment]

\* (*URL).String
URLString(u) ==
    LET Written(head, path) ==
            head
              \o (IF u.opaque # "" THEN ""
                  ELSE IF path # "" /\ CharAt(path, 0) # "/" /\ u.host # "" THEN "/"
                  ELSE IF head = "" /\ Contains(CutBefore(path, "/"), ":") THEN "./"
                  ELSE "")
              \o (IF u.opaque # "" THEN "" ELSE path)
              \o (IF u.query # "" THEN "?" \o u.query ELSE "")
              \o (IF u.fragment # "" THEN "#" \o EscapePath(u.fragment) ELSE "")
    IN  Written((IF u.scheme # "" THEN u.scheme \o ":" ELSE "")
                    \o (IF u.opaque # "" THEN u.opaque
                        ELSE IF (u.scheme # "" \/ u.host # "")
                                    /\ (u.host # "" \/ u.path # "")
                        THEN "//" \o u.host ELSE ""),
                EscapePath(u.path))

\* (*URL).Parse: a reference parsed and resolved in the context of u
URLParseIn(u, ref) ==
    LET Parsed(r) == IF r.ok THEN ResolveReference(u, r) ELSE BadURL
    IN  Parsed(ParseURL(ref))

\* r.URL.Query().Get(key): the first well-formed "key=value" pair for key
QueryGet(rawQuery, key) ==
    LET Named(k, v) == k.ok /\ k.s = key /\ v.ok
        Match(pair, c) ==
            ~Contains(pair, ";")
                /\ Named(QueryUnescape(c.before), QueryUnescape(c.after))
        First(pairs, good) ==
            IF good = {} THEN ""
            ELSE QueryUnescape(
                     CutAfter(pairs[CHOOSE i \in good : \A j \in good : i <= j],
                              "=")).s
        From(pairs) ==
            First(pairs, {i \in 1..Len(pairs) : Match(pairs[i], Cut(pairs[i], "="))})
    IN  From(Split(rawQuery, "&"))

(***************************************************************************)
(* Go package encoding/json on map[string]string                           *)
(***************************************************************************)
EmptyHeaders == [k \in {} |-> ""]

\* byte-wise string order, the order json.Marshal writes map keys in
RECURSIVE StrLess(_, _)
StrLess(a, b) ==
    IF a = "" THEN b # ""
    ELSE IF b = "" THEN FALSE
    ELSE IF CharAt(a, 0) # CharAt(b, 0) THEN Code(CharAt(a, 0)) < Code(CharAt(b, 0))
    ELSE StrLess(Slice(a, 1, Len(a)), Slice(b, 1, Len(b)))

RECURSIVE SortedKeys(_)
SortedKeys(keys) ==
    LET From(m) == <<m>> \o SortedKeys(keys \ {m})
    IN  IF keys = {} THEN <<>>
        ELSE From(CHOOSE k \in keys : \A j \in keys \ {k} : StrLess(k, j))

JSONEscapeChar(c) ==
    IF c = "\"" THEN "\\\"" ELSE IF c = "\\" THEN "\\\\"
    ELSE IF c = "\n" THEN "\\n" ELSE IF c = "\r" THEN "\\r"
    ELSE IF c = "\t" THEN "\\t"
    ELSE IF c = "<" THEN "\\u003c" ELSE IF c = ">" THEN "\\u003e"
    ELSE IF c = "&" THEN "\\u0026"
    ELSE c

JSONEscapeOf == [c \in Chars |-> JSONEscapeChar(c)]

JSONString(s) == MapChars(s, 0, Len(s), JSONEscapeOf)

RECURSIVE JSONMembers(_, _)
JSONMembers(m, keys) ==
    IF Len(keys) = 0 THEN ""
    ELSE "\"" \o JSONString(keys[1]) \o "\":\"" \o JSONString(m[keys[1]]) \o "\""
             \o (IF Len(keys) > 1 THEN "," ELSE "")
             \o JSONMembers(m, Tail(keys))

\* json.Marshal(headers)
JSONMarshal(m) == "{" \o JSONMembers(m, SortedKeys(DOMAIN m)) \o "}"

\* the number of consecutive backslashes that end just before position i
RECURSIVE BackslashRun(_, _)
BackslashRun(s, i) ==
    IF i > 0 /\ CharAt(s, i - 1) = "\\" THEN 1 + BackslashRun(s, i - 1) ELSE 0

\* position i starts an escape sequence of a string literal
EscapeAt(s, i) ==
    i >= 0 /\ CharAt(s, i) = "\\" /\ BackslashRun(s, i) % 2 = 0

RECURSIVE SortedInts(_)
SortedInts(ints) ==
    LET From(m) == <<m>> \o SortedInts(ints \ {m})
    IN  IF ints = {} THEN <<>>
        ELSE From(CHOOSE k \in ints : \A j \in ints : k <= j)

\* the positions of the quotes that delimit string literals
QuotePositions(s) ==
    SortedInts({i \in 0..(Len(s) - 1) :
                   CharAt(s, i) = "\"" /\ BackslashRun(s, i) % 2 = 0})

\* the characters lo..hi-1 of a string literal are well-formed
LiteralOK(s, lo, hi) ==
    \A i \in lo..(hi - 1) :
        /\ CharAt(s, i) \notin {"\t", "\n", "\r"}
        /\ EscapeAt(s, i) =>
               \/ i + 1 < hi /\ CharAt(s, i + 1) \in {"\"", "\\", "/", "n", "r", "t", "b", "f"}
               \/ /\ i + 5 < hi
                  /\ CharAt(s, i + 1) = "u"
                  /\ \A k \in 2..5 : IsHex(CharAt(s, i + k))

\* the text denoted by the characters lo..hi-1 of a string literal
RECURSIVE LiteralText(_, _, _)
LiteralText(s, lo, hi) ==
    LET Escaped(e) ==
            IF e = "n" THEN "\n" ELSE IF e = "r" THEN "\r"
            ELSE IF e = "t" THEN "\t"
            ELSE IF e = "u"
            THEN IF Slice(s, lo + 2, lo + 4) = "00"
                 THEN Chr(16 * UnHex(CharAt(s, lo + 4)) + UnHex(CharAt(s, lo + 5)))
                 ELSE "?"
            ELSE IF e \in {"b", "f"} THEN "?"
            ELSE e
    IN  IF lo >= hi THEN ""
        ELSE IF hi - lo = 1
        THEN IF EscapeAt(s, lo) THEN Escaped(CharAt(s, lo + 1))
             ELSE IF \E k \in 1..5 :
                         /\ EscapeAt(s, lo - k)
                         /\ k > 1 => CharAt(s, lo - k + 1) = "u"
             THEN ""
             ELSE CharAt(s, lo)
        ELSE LiteralText(s, lo, (lo + hi) \div 2)
                 \o LiteralText(s, (lo + hi) \div 2, hi)

\* only white space around the one character c in positions lo..hi-1
OnlyToken(s, lo, hi, c) == TrimSpace(Slice(s, lo, hi)) = c

\* the members of an object whose literals are delimited by the quotes q,
\* from the k-th member on
RECURSIVE ScanMembers(_, _, _, _)
ScanMembers(s, q, k, acc) ==
    LET Bad == [ok |-> FALSE, m |-> EmptyHeaders]
        After(vc, got) ==
            IF 4 * k = Len(q)
            THEN IF OnlyToken(s, vc + 1, Len(s), "}")
                 THEN [ok |-> TRUE, m |-> got]
                 ELSE Bad
            ELSE IF OnlyToken(s, vc + 1, q[4 * k + 1], ",")
            THEN ScanMembers(s, q, k + 1, got)
            ELSE Bad
        Got(vo, vc, key) ==
            After(vc, [n \in DOMAIN acc \cup {key} |->
                         IF n = key THEN LiteralText(s, vo + 1, vc) ELSE acc[n]])
        Member(ko, kc, vo, vc) ==
            IF ~LiteralOK(s, ko + 1, kc) \/ ~LiteralOK(s, vo + 1, vc)
                   \/ ~OnlyToken(s, kc + 1, vo, ":")
            THEN Bad
            ELSE Got(vo, vc, LiteralText(s, ko + 1, kc))
    IN  Member(q[4 * k - 3], q[4 * k - 2], q[4 * k - 1], q[4 * k])

\* json.Unmarshal(data, &parsedHeaders) into an empty map: an object of
\* string members; invalid input leaves the map empty
JSONUnmarshal(s) ==
    LET Object(q, t) ==
            IF Len(q) = 0
            THEN [ok |-> /\ HasPrefix(t, "{") /\ HasSuffix(t, "}") /\ Len(t) >= 2
                         /\ TrimSpace(Slice(t, 1, Len(t) - 1)) = "",
                  m |-> EmptyHeaders]
            ELSE IF Len(q) % 4 # 0 \/ ~OnlyToken(s, 0, q[1], "{")
            THEN [ok |-> FALSE, m |-> EmptyHeaders]
            ELSE ScanMembers(s, q, 1, EmptyHeaders)
    IN  Object(QuotePositions(s), TrimSpace(s))

(***************************************************************************)
(* Bounds and inputs                                                       *)
(***************************************************************************)
\* lines of a master playlist after its first line
MaxLines == 3

\* lines of a media playlist after its first line
MaxMediaLines == 2

\* lines, after the first, of a playlist reached by following a link
MaxNestedLines == 0

\* playlists a player follows links through, after the one it asked for
MaxHops == 1

\* main.go: PUBLIC_URL, by default http://HOST:PORT
webServerURL == "http://localhost:3000"

None == [none |-> TRUE]

\* the origin of the playlists, and another host that serves media
OriginHost == "https://o.x"

OtherHost == "https://c.y"

\* playlist locations on the origin, at directory depths 0 and 2
PlaylistPaths == {"p.m3u8", "a/b/p.m3u8"}

\* header overrides a caller asks for: none, or one whose value has a '+'
CallerHeaders == {"", "{\"X\":\"t+k\"}"}

\* the lines media playlists are made of; "%zz" is a reference that
\* url.Parse refuses (an invalid escape)
MediaLines ==
    { "#EXTINF:4,\r",
      "s.ts",
      "/x/s.ts",
      OtherHost \o "/v/s.ts",
      "#EXT-X-KEY:IV=\"k\",URI=\"k\"",
      "#EXT-X-KEY:METHOD=AES-128,URI=\"k\"",
      "%zz",
      "" }

\* the lines master playlists are made of
MasterLines ==
    { "#EXT-X-STREAM-INF:BANDWIDTH=1",
      "v.m3u8",
      OtherHost \o "/v/s.ts",
      "#EXT-X-SESSION-KEY:METHOD=AES-128,URI=\"k\"" }

\* the playlist bodies of at most n lines of a vocabulary after #EXTM3U
RECURSIVE Bodies(_, _)
Bodies(vocabulary, n) ==
    IF n = 0 THEN {"#EXTM3U"}
    ELSE Bodies(vocabulary, n - 1) \cup
         {b \o "\n" \o l : b \in Bodies(vocabulary, n - 1), l \in vocabulary}

FirstBodies == Bodies(MediaLines, MaxMediaLines) \cup Bodies(MasterLines, MaxLines)

NestedBodies == Bodies(MediaLines \cup MasterLines, MaxNestedLines)

\* compress/gzip and compress/zlib, as far as the relay meets them.  A
\* compressed body is not the text it holds: the model writes the deflated
\* data as the text reversed, after "~~" for the two magic bytes of a gzip
\* member (1f 8b) and after "x" for the first byte of a zlib stream (78).
RECURSIVE Reverse(_)
Reverse(s) ==
    IF s = "" THEN "" ELSE Reverse(Slice(s, 1, Len(s))) \o Slice(s, 0, 1)

gzipMagic == "~~"

\* what an origin sends as Content-Encoding: gzip
gzipOf(text) == gzipMagic \o Reverse(text)

\* what an origin sends as Content-Encoding: deflate
deflateOf(text) == "x" \o Reverse(text)

\* a response of the origin: its status, its Content-Type and
\* Content-Encoding ("" for a header it does not send), and its body
Answered(status, ctype, encoding, body) ==
    [err |-> FALSE, status |-> status, ctype |-> ctype, encoding |-> encoding,
     body |-> body]

\* the answers of an origin that uses the encodings the relay asks for: a
\* playlist as gzip and as deflate, a body that is declared gzip and is not,
\* and a segment as gzip
EncodedResults ==
    {Answered(200, "", "gzip", gzipOf("#EXTM3U\ns.ts")),
     Answered(200, "", "deflate", deflateOf("#EXTM3U\ns.ts")),
     Answered(200, "", "gzip", "#EXTM3U"),
     Answered(200, "video/mp2t", "gzip", gzipOf("G@"))}

\* what the origin answers to the outbound GET of a request that is depth
\* links away from the player's first request
UpstreamResults(depth) ==
    {[err |-> TRUE, status |-> 0, ctype |-> "", encoding |-> "", body |-> ""]}
        \cup {Answered(200, "", "", b) :
                 b \in (IF depth = 0 THEN FirstBodies ELSE NestedBodies) \cup {"<html>"}}
        \cup {Answered(200, "video/mp2t", "", "G@"),
              Answered(404, "text/html", "", "<html>")}
        \cup EncodedResults

(***************************************************************************)
(* The state of the relay                                                  *)
(***************************************************************************)
VARIABLES
    build,      \* the handler family that is deployed, and its revision
    inbound,    \* the request the relay has received and not yet answered
    followed,   \* the playlist link the player followed to make that request
    outbound,   \* the GET the handler sent to the origin
    upstream,   \* what the origin answered
    response,   \* what the handler answered
    by,         \* the function that wrote the response
    served,     \* the playlist the handler rewrote
    direct,     \* the URL the player fetched from its own host, "" if none
    hops,       \* links followed since the player's first request
    phase,      \* where the handler of a container request is
    gets,       \* calls of client.Do for the request in hand
    redirects,  \* redirects the pending fetch has received
    chain,      \* redirects the origin answers the fetch with
    callerGone, \* the caller of the request in hand has disconnected
    allowedOrigins, \* main.go: the origins main read from ALLOWED_ORIGINS
    caller,     \* the request in hand as its caller sent it
    written,    \* the response headers corsMiddleware has set
    slots,      \* the requests being handled at the same time, one a goroutine
    idle        \* connections to the origin that the client keeps for reuse

\* the variables of the exchange of a container request
exchangeVars == <<phase, gets, redirects, chain, callerGone>>

\* the variables of the server around the handlers
serverVars == <<allowedOrigins, caller, written>>

\* the variables of requests handled at the same time
concurrentVars == <<slots, idle>>

vars == <<build, inbound, followed, outbound, upstream, response, by, served,
          direct, hops, exchangeVars, serverVars, concurrentVars>>

\* the outcome of a handler: the function that wrote the response, the
\* outbound request it made (None when it made none), its response, and the
\* playlist it rewrote (None when it rewrote none)
Outcome(handler, out, resp, rewritten) ==
    [by |-> handler, outbound |-> out, response |-> resp, served |-> rewritten]

\* a rewritten playlist: the handler, the playlist's URL, the outbound headers,
\* the host and prefix of a path-prefixed request, the lines of the body, the
\* lines written, and for each line written the index of the line it came from
Rewritten(handler, targetURL, headers, host, prefix, lines, newLines, from) ==
    [handler |-> handler, base |-> targetURL, headers |-> headers, host |-> host,
     prefix |-> prefix, lines |-> lines, newLines |-> newLines, from |-> from]

\* a handler answers the inbound request with outcome o
Answer(o, up) ==
    /\ inbound' = None
    /\ outbound' = o.outbound
    /\ upstream' = IF o.outbound = None \/ ~o.outbound.ok THEN None ELSE up
    /\ response' = o.response
    /\ by' = o.by
    /\ served' = o.served
    /\ UNCHANGED <<serverVars, build, followed, direct, hops, exchangeVars>>

(***************************************************************************)
(* utils.go                                                                *)
(***************************************************************************)
\* a decoding that keeps the members read before the text stops being JSON
parseHeadersLenient(query) ==
    LET Object(text) ==
            IF JSONUnmarshal(text).ok \/ ~Contains(text, "}")
            THEN JSONUnmarshal(text).m
            ELSE JSONUnmarshal(CutBefore(text, "}") \o "}").m
        Decoded(headersParam, decodedHeaders) ==
            IF headersParam # "" /\ decodedHeaders.ok
            THEN Object(decodedHeaders.s)
            ELSE EmptyHeaders
        Param(headersParam) == Decoded(headersParam, QueryUnescape(headersParam))
    IN  Param(QueryGet(query, "headers"))

\* the headers query parameter as every handler decodes it
parseHeadersParam(query) ==
    LET Decoded(headersParam, decodedHeaders) ==
            IF headersParam # "" /\ decodedHeaders.ok
            THEN JSONUnmarshal(decodedHeaders.s).m
            ELSE EmptyHeaders
        Param(headersParam) == Decoded(headersParam, QueryUnescape(headersParam))
    IN  Param(QueryGet(query, "headers"))

\* a validation that lets a request without its url parameter through
validateRequestAnyURL(r) ==
    [ok |-> TRUE, targetURL |-> QueryGet(r.query, "url"),
     parsedHeaders |-> parseHeadersParam(r.query)]

validateRequest(r) ==
    LET Target(targetURL) ==
            IF targetURL = ""
            THEN [ok |-> FALSE, targetURL |-> "", parsedHeaders |-> EmptyHeaders]
            ELSE [ok |-> TRUE, targetURL |-> targetURL,
                  parsedHeaders |-> parseHeadersParam(r.query)]
    IN  Target(QueryGet(r.query, "url"))

defaultHeaders ==
    [k \in {"User-Agent", "Accept", "Accept-Language", "Accept-Encoding", "Connection"} |->
        IF k = "User-Agent"
        THEN "Mozilla/5.0 (Windows NT 10.0; Win64; x64; rv:137.0) Gecko/20100101 Firefox/137.0"
        ELSE IF k = "Accept" THEN "*/*"
        ELSE IF k = "Accept-Language" THEN "en-US,en;q=0.5"
        ELSE IF k = "Accept-Encoding" THEN "gzip, deflate"
        ELSE "keep-alive"]

generateRequestHeaders(targetURL, additionalHeaders) ==
    LET Merged(given) ==
            [k \in DOMAIN defaultHeaders \cup given |->
                IF k \in given THEN additionalHeaders[k] ELSE defaultHeaders[k]]
    IN  Merged({k \in DOMAIN additionalHeaders : additionalHeaders[k] # ""})

\* makeRequest: the outbound GET; http.NewRequest fails on an unparsable URL
makeRequest(targetURL, headers) ==
    [url |-> targetURL, headers |-> headers, ok |-> ParseURL(targetURL).ok]

resolveURL(baseURL, relativeURL) ==
    LET Resolved(base, rel) ==
            IF ~base.ok \/ ~rel.ok THEN relativeURL
            ELSE URLString(ResolveReference(base, rel))
    IN  Resolved(ParseURL(baseURL), ParseURL(relativeURL))

\* gzip.NewReader and io.ReadAll: the header is checked, the data inflated
gunzip(body) ==
    IF HasPrefix(body, gzipMagic)
    THEN [ok |-> TRUE, s |-> Reverse(TrimPrefix(body, gzipMagic))]
    ELSE [ok |-> FALSE, s |-> ""]

readResponseBody(resp) ==
    IF Contains(ToLower(resp.encoding), "gzip") THEN gunzip(resp.body)
    ELSE [ok |-> TRUE, s |-> resp.body]

(***************************************************************************)
(* handlers.go                                                             *)
(***************************************************************************)
\* the response of sendError; its "details" member, the text of an error of
\* net/http, is left out
sendError(statusCode, message) ==
    [status |-> statusCode, ctype |-> "application/json",
     body |-> "{\"error\":\"" \o message \o "\"}"]

playlistResponse(newLines) ==
    [status |-> 200, ctype |-> "application/vnd.apple.mpegurl",
     body |-> Join(newLines, "\n")]

\* uriStart, uriEnd and originalURI of the functions that rewrite URI="...":
\* the text between URI=" and the next quote
originalURI(line) ==
    LET Ended(start, end) ==
            IF end = -1 THEN [found |-> FALSE, uri |-> ""]
            ELSE [found |-> TRUE, uri |-> Slice(line, start, start + end)]
        Started(uriStart) ==
            IF uriStart = -1 THEN [found |-> FALSE, uri |-> ""]
            ELSE Ended(uriStart + 5,
                       Index(Slice(line, uriStart + 5, Len(line)), "\""))
    IN  Started(Index(line, "URI=\""))

processKeyURI(line, baseURL, headers) ==
    LET Replaced(o) ==
            IF ~o.found THEN line
            ELSE ReplaceFirst(line, o.uri,
                     webServerURL \o "/ts-proxy?url="
                         \o QueryEscape(resolveURL(baseURL, o.uri))
                         \o "&headers=" \o QueryEscape(JSONMarshal(headers)))
    IN  Replaced(originalURI(line))

processSegmentURL(line, baseURL, headers) ==
    webServerURL
        \o (IF HasSuffix(ToLower(line), ".m3u8") THEN "/proxy" ELSE "/ts-proxy")
        \o "?url=" \o QueryEscape(resolveURL(baseURL, TrimSpace(line)))
        \o "&headers=" \o QueryEscape(JSONMarshal(headers))

\* the loop of m3u8ProxyHandler over the lines of the body
proxyLine(line, targetURL, requestHeaders) ==
    IF HasPrefix(line, "#")
    THEN IF Contains(line, "URI=") THEN processKeyURI(line, targetURL, requestHeaders)
         ELSE line
    ELSE IF TrimSpace(line) # "" THEN processSegmentURL(line, targetURL, requestHeaders)
    ELSE line

\* the indices of a loop that writes one line for every line it reads
EveryLine(lines) == [i \in 1..Len(lines) |-> i]

\* the indices of a loop that skips the lines that are blank after trimming
RECURSIVE NonBlankFrom(_, _)
NonBlankFrom(lines, k) ==
    IF k > Len(lines) THEN <<>>
    ELSE (IF TrimSpace(lines[k]) = "" THEN <<>> ELSE <<k>>) \o NonBlankFrom(lines, k + 1)

m3u8ProxyHandler(r, up) ==
    \E v \in {validateRequest(r)} :
        IF ~v.ok
        THEN Answer(Outcome("m3u8ProxyHandler", None,
                            sendError(400, "URL parameter is required"), None), up)
        ELSE \E requestHeaders \in
                    {generateRequestHeaders(v.targetURL, v.parsedHeaders)} :
             \E req \in {makeRequest(v.targetURL, requestHeaders)} :
                 IF ~req.ok \/ up.err
                 THEN Answer(Outcome("m3u8ProxyHandler", req,
                                     sendError(500, "Failed to fetch m3u8 content"),
                                     None), up)
                 ELSE \E body \in {readResponseBody(up)} :
                      IF ~body.ok
                      THEN Answer(Outcome("m3u8ProxyHandler", req,
                                          sendError(500, "Failed to read m3u8 content"),
                                          None), up)
                      ELSE
                      \E lines \in {Split(body.s, "\n")} :
                      \E newLines \in
                             {[i \in 1..Len(lines) |->
                                 proxyLine(lines[i], v.targetURL, requestHeaders)]} :
                          Answer(Outcome("m3u8ProxyHandler", req,
                                         playlistResponse(newLines),
                                         Rewritten("m3u8ProxyHandler", v.targetURL,
                                                   requestHeaders, "", "", lines,
                                                   newLines, EveryLine(lines))), up)

(***************************************************************************)
(* headers.go, and the headers of unnamed/part_003 (lines 538-658)         *)
(***************************************************************************)
\* url.URL.Hostname: the host without a port and without brackets
Hostname(host) ==
    LET Unbracketed(h) ==
            IF HasPrefix(h, "[") /\ HasSuffix(h, "]") THEN Slice(h, 1, Len(h) - 1)
            ELSE h
        Ported(colon) ==
            IF colon # -1
                   /\ \A i \in (colon + 1)..(Len(host) - 1) : CharAt(host, i) \in Digits
            THEN Slice(host, 0, colon)
            ELSE host
    IN  Unbracketed(Ported(LastIndex(host, ":")))

\* the loop that merges the overrides into the headers of a target
mergeHeaders(headers, additionalHeaders) ==
    LET Merged(given) ==
            [k \in DOMAIN headers \cup given |->
                IF k \in given THEN additionalHeaders[k] ELSE headers[k]]
    IN  Merged({k \in DOMAIN additionalHeaders : additionalHeaders[k] # ""})

\* headers.go: the headers every target gets
domainBaseline ==
    [k \in {"User-Agent", "Accept", "Accept-Language", "Accept-Encoding", "Connection"} |->
        IF k = "User-Agent"
        THEN "Mozilla/5.0 (Windows NT 10.0; Win64; x64) AppleWebKit/537.36 (KHTML, like Gecko) Chrome/91.0.4472.124 Safari/537.36"
        ELSE IF k = "Accept" THEN "*/*"
        ELSE IF k = "Accept-Language" THEN "en-US,en;q=0.9"
        ELSE IF k = "Accept-Encoding" THEN "gzip, deflate"
        ELSE "keep-alive"]

generateHeadersForDomain(targetURL) ==
    LET Ruled(hostname) ==
            (IF Contains(hostname, "example.com") THEN {"Referer"} ELSE {})
                \cup (IF Contains(hostname, "cdn") \/ Contains(hostname, "stream")
                      THEN {"Origin"} ELSE {})
        Headers(added) ==
            [k \in DOMAIN domainBaseline \cup added |->
                IF k = "Referer"
                THEN targetURL.scheme \o "://" \o targetURL.host \o "/"
                ELSE IF k = "Origin"
                THEN targetURL.scheme \o "://" \o targetURL.host
                ELSE domainBaseline[k]]
    IN  Headers(Ruled(ToLower(Hostname(targetURL.host))))

\* headers.go, generateRequestHeaders
generateRequestHeaders_r2(targetURL, additionalHeaders) ==
    LET Parsed(parsedURL) ==
            IF ~parsedURL.ok THEN mergeHeaders(domainBaseline, additionalHeaders)
            ELSE mergeHeaders(generateHeadersForDomain(parsedURL), additionalHeaders)
    IN  Parsed(ParseURL(targetURL))

videostrDomains == {"1hd.su", "rainflare", "lightbeam", "videostr"}

getHeaderConfig(targetURL) ==
    LET Config(u) ==
            IF ~u.ok \/ \E d \in videostrDomains : Contains(ToLower(Hostname(u.host)), d)
            THEN [Referer |-> "https://videostr.net/", Origin |-> "https://videostr.net"]
            ELSE [Referer |-> u.scheme \o "://" \o u.host \o "/",
                  Origin |-> u.scheme \o "://" \o u.host]
    IN  Config(ParseURL(targetURL))

getDefaultHeaders ==
    [k \in {"User-Agent", "Accept", "Accept-Language", "Accept-Encoding", "Connection",
            "Sec-Fetch-Dest", "Sec-Fetch-Mode", "Sec-Fetch-Site"} |->
        IF k = "User-Agent"
        THEN "Mozilla/5.0 (Windows NT 10.0; Win64; x64) AppleWebKit/537.36 (KHTML, like Gecko) Chrome/120.0.0.0 Safari/537.36"
        ELSE IF k = "Accept" THEN "*/*"
        ELSE IF k = "Accept-Language" THEN "en-US,en;q=0.9"
        ELSE IF k = "Accept-Encoding" THEN "gzip, deflate, br"
        ELSE IF k = "Connection" THEN "keep-alive"
        ELSE IF k = "Sec-Fetch-Dest" THEN "empty"
        ELSE IF k = "Sec-Fetch-Mode" THEN "cors"
        ELSE "cross-site"]

\* unnamed/part_003, generateRequestHeaders
generateRequestHeaders_r3(targetURL, additionalHeaders) ==
    LET Configured(config) ==
            mergeHeaders([k \in DOMAIN getDefaultHeaders \cup {"Referer", "Origin"} |->
                             IF k = "Referer" THEN config.Referer
                             ELSE IF k = "Origin" THEN config.Origin
                             ELSE getDefaultHeaders[k]],
                         additionalHeaders)
    IN  Configured(getHeaderConfig(targetURL))

\* the generateRequestHeaders that a revision of handlers.go is built with:
\* utils.go, headers.go, or the one of unnamed/part_003
requestHeadersOf(rev, targetURL, additionalHeaders) ==
    IF rev = 1 THEN generateRequestHeaders(targetURL, additionalHeaders)
    ELSE IF rev = 2 THEN generateRequestHeaders_r2(targetURL, additionalHeaders)
    ELSE generateRequestHeaders_r3(targetURL, additionalHeaders)

(***************************************************************************)
(* handlers.go, second revision (lines 285-738)                            *)
(***************************************************************************)
\* resolveURL(href, base): the arguments in the other order
resolveURL_r2(href, base) ==
    LET Resolved(baseURL, relativeURL) ==
            IF ~baseURL.ok \/ ~relativeURL.ok THEN href
            ELSE URLString(ResolveReference(baseURL, relativeURL))
    IN  Resolved(ParseURL(base), ParseURL(href))

\* the loop of the second m3u8ProxyHandler over the lines of the body
proxyLine_r2(line, targetURL, encodedHeaders) ==
    LET Segment(resolvedURL) ==
            webServerURL
                \o (IF HasSuffix(ToLower(resolvedURL), ".m3u8") THEN "/proxy"
                    ELSE "/ts-proxy")
                \o "?url=" \o QueryEscape(resolvedURL)
                \o "&headers=" \o encodedHeaders
        Key(o) ==
            IF ~o.found THEN line
            ELSE ReplaceFirst(line, o.uri,
                     webServerURL \o "/ts-proxy?url="
                         \o QueryEscape(resolveURL_r2(o.uri, targetURL))
                         \o "&headers=" \o encodedHeaders)
        Trimmed(trimmedLine) ==
            IF HasPrefix(trimmedLine, "#")
            THEN IF Contains(line, "URI=") THEN Key(originalURI(line)) ELSE line
            ELSE IF trimmedLine # ""
            THEN Segment(resolveURL_r2(trimmedLine, targetURL))
            ELSE line
    IN  Trimmed(TrimSpace(line))

m3u8ProxyHandler_r2(r, up) ==
    \E v \in {validateRequest(r)} :
        IF ~v.ok
        THEN Answer(Outcome("m3u8ProxyHandler", None,
                            sendError(400, "URL parameter is required"), None), up)
        ELSE \E requestHeaders \in
                    {requestHeadersOf(build.rev, v.targetURL, v.parsedHeaders)} :
             \E req \in {makeRequest(v.targetURL, requestHeaders)} :
                 IF ~req.ok
                 THEN Answer(Outcome("m3u8ProxyHandler", req,
                                     sendError(500, "Failed to create request"),
                                     None), up)
                 ELSE IF up.err
                 THEN Answer(Outcome("m3u8ProxyHandler", req,
                                     sendError(500, "Failed to proxy m3u8 content"),
                                     None), up)
                 ELSE \E lines \in {Split(up.body, "\n")} :
                      \E encodedHeaders \in {QueryEscape(JSONMarshal(requestHeaders))} :
                      \E newLines \in
                             {[i \in 1..Len(lines) |->
                                 proxyLine_r2(lines[i], v.targetURL, encodedHeaders)]} :
                          Answer(Outcome("m3u8ProxyHandler", req,
                                         playlistResponse(newLines),
                                         Rewritten("m3u8ProxyHandler", v.targetURL,
                                                   requestHeaders, "", "", lines,
                                                   newLines, EveryLine(lines))), up)

detectContentType(targetURL) ==
    LET Lower(lowerURL) ==
            IF HasSuffix(lowerURL, ".ts") THEN "video/mp2t"
            ELSE IF HasSuffix(lowerURL, ".m3u8") THEN "application/vnd.apple.mpegurl"
            ELSE IF Contains(lowerURL, ".jpg") \/ Contains(lowerURL, ".jpeg")
            THEN "image/jpeg"
            ELSE IF Contains(lowerURL, ".png") THEN "image/png"
            ELSE IF Contains(lowerURL, ".gif") THEN "image/gif"
            ELSE IF Contains(lowerURL, ".webp") THEN "image/webp"
            ELSE IF Contains(lowerURL, ".svg") THEN "image/svg+xml"
            ELSE "application/octet-stream"
    IN  Lower(ToLower(targetURL))

\* the body of tsProxyHandler, handleUniversalSegmentProxy and
\* handleFileSegmentProxy after the target and the headers are known
segmentProxy(handler, targetURL, headers, up) ==
    \E req \in {makeRequest(targetURL, headers)} :
        IF ~req.ok \/ up.err
        THEN Answer(Outcome(handler, req, sendError(502, "Failed to proxy segment"), None),
                    up)
        ELSE Answer(Outcome(handler, req,
                            [status |-> up.status,
                             ctype |-> IF up.ctype = ""
                                       THEN detectContentType(targetURL)
                                       ELSE up.ctype,
                             encoding |-> "",
                             body |-> up.body],
                            None), up)

tsProxyHandler(r, up) ==
    \E v \in {validateRequest(r)} :
        IF ~v.ok
        THEN Answer(Outcome("tsProxyHandler", None,
                            sendError(400, "URL parameter is required"), None), up)
        ELSE \E requestHeaders \in
                    {generateRequestHeaders(v.targetURL, v.parsedHeaders)} :
                 segmentProxy("tsProxyHandler", v.targetURL, requestHeaders, up)

\* the Content-Type the second tsProxyHandler chooses when the upstream sent
\* none (lines 470-484)
contentType_r2(targetURL) ==
    IF HasSuffix(targetURL, ".ts") THEN "video/mp2t"
    ELSE IF HasSuffix(targetURL, ".m3u8") THEN "application/vnd.apple.mpegurl"
    ELSE IF \E ext \in {".jpg", ".jpeg", ".png", ".gif", ".webp", ".bmp", ".svg"} :
                Contains(targetURL, ext)
    THEN "image/jpeg"
    ELSE "application/octet-stream"

\* tsProxyHandler of the second revision (lines 441-491)
tsProxyHandler_r2(r, up) ==
    \E v \in {validateRequest(r)} :
        IF ~v.ok
        THEN Answer(Outcome("tsProxyHandler", None,
                            sendError(400, "URL parameter is required"), None), up)
        ELSE \E requestHeaders \in
                    {requestHeadersOf(build.rev, v.targetURL, v.parsedHeaders)} :
             \E req \in {makeRequest(v.targetURL, requestHeaders)} :
                 IF ~req.ok
                 THEN Answer(Outcome("tsProxyHandler", req,
                                     sendError(500, "Failed to create request"),
                                     None), up)
                 ELSE IF up.err
                 THEN Answer(Outcome("tsProxyHandler", req,
                                     sendError(500, "Failed to proxy segment"),
                                     None), up)
                 ELSE Answer(Outcome("tsProxyHandler", req,
                                     [status |-> up.status,
                                      ctype |-> IF up.ctype = ""
                                                THEN contentType_r2(v.targetURL)
                                                ELSE up.ctype,
                                      encoding |-> "",
                                      body |-> up.body],
                                     None), up)

(***************************************************************************)
(* v3_proxy.go, first revision (lines 1-236)                               *)
(***************************************************************************)
IsAbsolute(urlStr) == HasPrefix(urlStr, "http://") \/ HasPrefix(urlStr, "https://")

resolveUniversalURL(urlStr, targetURL, host, basePath, prefix) ==
    LET Relative(baseURL, relURL) ==
            IF baseURL.ok /\ relURL.ok
            THEN TrimPrefix(
                     ResolveReference(
                         [baseURL EXCEPT !.path =
                             TrimSuffix(baseURL.path,
                                 TrimPrefix(
                                     TrimPrefix(targetURL,
                                         baseURL.scheme \o "://" \o baseURL.host),
                                     "/"))],
                         relURL).path,
                     prefix)
            ELSE basePath \o urlStr
        Absolute(parsed) ==
            IF parsed.ok THEN TrimPrefix(parsed.path, prefix) ELSE urlStr
    IN  IF IsAbsolute(urlStr) THEN Absolute(ParseURL(urlStr))
        ELSE Relative(ParseURL(targetURL), ParseURL(basePath \o urlStr))

\* the URI="..." value of a directive, "" when there is none
inlineURI(trimmed) == originalURI(trimmed).uri

StreamTags == {"EXT-X-STREAM-INF", "EXT-X-MEDIA", "EXT-X-I-FRAME-STREAM-INF"}

universalLink(prefix, resource, host, headersParam) ==
    webServerURL \o prefix \o resource \o "?host=" \o QueryEscape(host)
        \o "&headers=" \o headersParam

\* one iteration of the loop of handleUniversalM3U8Proxy: the line written
\* and the tag context after it
universalLine(line, currentTag, c) ==
    LET Linked(tag, inlineURL, proxyURL) ==
            IF inlineURL # ""
            THEN [out |-> ReplaceFirst(line, inlineURL, proxyURL), tag |-> tag]
            ELSE [out |-> proxyURL, tag |-> tag]
        Gated(trimmed, isTag, tag, inlineURL) ==
            IF isTag /\ inlineURL = "" THEN [out |-> line, tag |-> tag]
            ELSE IF c.isMaster /\ tag \notin StreamTags THEN [out |-> line, tag |-> tag]
            ELSE Linked(tag, inlineURL,
                        universalLink(c.prefix,
                            resolveUniversalURL(
                                IF inlineURL = "" THEN trimmed ELSE inlineURL,
                                c.targetURL, c.host, c.basePath, c.prefix),
                            c.host, c.headersParam))
        Tagged(trimmed, isTag) ==
            Gated(trimmed, isTag,
                  IF isTag /\ c.isMaster
                  THEN ToUpper(TrimPrefix(SplitN2(trimmed, ":")[1], "#"))
                  ELSE currentTag,
                  IF isTag THEN inlineURI(trimmed) ELSE "")
        Trimmed(trimmed) ==
            IF trimmed = "" THEN [out |-> line, tag |-> currentTag]
            ELSE Tagged(trimmed, HasPrefix(trimmed, "#"))
    IN  Trimmed(TrimSpace(line))

RECURSIVE universalLines(_, _, _, _)
universalLines(lines, k, currentTag, c) ==
    LET Step(step) == <<step.out>> \o universalLines(lines, k + 1, step.tag, c)
    IN  IF k > Len(lines) THEN <<>>
        ELSE Step(universalLine(lines[k], currentTag, c))

\* strings.LastIndex(originalPath, "/") and the slice up to it
basePathOf(originalPath) ==
    LET At(lastSlash) ==
            IF lastSlash # -1 THEN Slice(originalPath, 0, lastSlash + 1) ELSE ""
    IN  At(LastIndex(originalPath, "/"))

handleUniversalM3U8Proxy(targetURL, host, originalPath, prefix, headers, up) ==
    \E req \in {makeRequest(targetURL, headers)} :
        IF ~req.ok \/ up.err
        THEN Answer(Outcome("handleUniversalM3U8Proxy", req,
                            sendError(502, "Failed to fetch m3u8 content"), None), up)
        ELSE IF up.status # 200
        THEN Answer(Outcome("handleUniversalM3U8Proxy", req,
                            sendError(502, "Upstream returned non-200 status"), None),
                    up)
        ELSE \E body \in {readResponseBody(up)} :
        IF ~body.ok
        THEN Answer(Outcome("handleUniversalM3U8Proxy", req,
                            sendError(500, "Failed to read m3u8 content"), None), up)
        ELSE IF ~HasPrefix(TrimSpace(body.s), "#EXTM3U")
        THEN Answer(Outcome("handleUniversalM3U8Proxy", req,
                            sendError(502, "Invalid M3U8 content"), None), up)
        ELSE \E lines \in {Split(body.s, "\n")} :
             \E basePath \in {basePathOf(originalPath)} :
             \E headersParam \in {QueryEscape(JSONMarshal(headers))} :
             \E newLines \in
                    {universalLines(lines, 1, "",
                         [isMaster |-> Contains(body.s, "#EXT-X-STREAM-INF:"),
                          targetURL |-> targetURL, host |-> host,
                          basePath |-> basePath, prefix |-> prefix,
                          headersParam |-> headersParam])} :
                 Answer(Outcome("handleUniversalM3U8Proxy", req,
                                playlistResponse(newLines),
                                Rewritten("handleUniversalM3U8Proxy", targetURL,
                                          headers, host, prefix, lines, newLines,
                                          EveryLine(lines))), up)

(***************************************************************************)
(* v3_proxy.go, second revision (lines 239-454)                            *)
(***************************************************************************)
processUniversalKeyURI(line, host, basePath, prefix, headersParam) ==
    LET Absolute(uri, parsed) ==
            IF parsed.ok
            THEN ReplaceFirst(line, uri,
                     universalLink(prefix, TrimPrefix(parsed.path, prefix), host,
                                   headersParam))
            ELSE line
        Found(o) ==
            IF ~o.found THEN line
            ELSE IF IsAbsolute(o.uri) THEN Absolute(o.uri, ParseURL(o.uri))
            ELSE ReplaceFirst(line, o.uri,
                     universalLink(prefix, basePath \o o.uri, host, headersParam))
    IN  Found(originalURI(line))

processUniversalSegmentURL(line, host, basePath, prefix, headersParam) ==
    LET Absolute(parsed) ==
            IF parsed.ok
            THEN universalLink(prefix, TrimPrefix(parsed.path, prefix), host,
                               headersParam)
            ELSE line
        Trimmed(trimmedLine) ==
            IF IsAbsolute(trimmedLine) THEN Absolute(ParseURL(trimmedLine))
            ELSE universalLink(prefix, basePath \o trimmedLine, host, headersParam)
    IN  Trimmed(TrimSpace(line))

handleUniversalM3U8Proxy_r2(targetURL, host, originalPath, prefix, headers, up) ==
    \E req \in {makeRequest(targetURL, headers)} :
        IF ~req.ok \/ up.err
        THEN Answer(Outcome("handleUniversalM3U8Proxy", req,
                            sendError(502, "Failed to fetch m3u8 content"), None), up)
        ELSE \E lines \in {Split(up.body, "\n")} :
             \E basePath \in {basePathOf(originalPath)} :
             \E headersParam \in {QueryEscape(JSONMarshal(headers))} :
             \E newLines \in
                    {[i \in 1..Len(lines) |->
                        IF HasPrefix(lines[i], "#")
                        THEN IF Contains(lines[i], "URI=")
                             THEN processUniversalKeyURI(lines[i], host, basePath,
                                                         prefix, headersParam)
                             ELSE lines[i]
                        ELSE IF TrimSpace(lines[i]) # ""
                        THEN processUniversalSegmentURL(lines[i], host, basePath,
                                                        prefix, headersParam)
                        ELSE lines[i]]} :
                 Answer(Outcome("handleUniversalM3U8Proxy", req,
                                playlistResponse(newLines),
                                Rewritten("handleUniversalM3U8Proxy", targetURL,
                                          headers, host, prefix, lines, newLines,
                                          EveryLine(lines))), up)

\* universalHLSProxyHandler is the same in both revisions; rev selects the
\* revision of handleUniversalM3U8Proxy it calls
universalHLSProxyHandler(r, up, rev) ==
    \E pathParts \in {SplitN2(TrimPrefix(r.path, "/"), "/")} :
        IF Len(pathParts) < 2
        THEN Answer(Outcome("universalHLSProxyHandler", None,
                            sendError(400, "Invalid HLS proxy path"), None), up)
        ELSE \E prefix \in {"/" \o pathParts[1] \o "/"} :
             \E path \in {pathParts[2]} :
                 IF path = ""
                 THEN Answer(Outcome("universalHLSProxyHandler", None,
                                     sendError(400, "Invalid HLS proxy path"), None),
                             up)
                 ELSE \E host \in {QueryGet(r.query, "host")} :
                      IF host = ""
                      THEN Answer(Outcome("universalHLSProxyHandler", None,
                                          sendError(400, "host parameter is required"),
                                          None), up)
                      ELSE \E targetURL \in {TrimSuffix(host, "/") \o prefix \o path} :
                           \E requestHeaders \in
                                  {generateRequestHeaders(targetURL,
                                       parseHeadersParam(r.query))} :
                               IF HasSuffix(ToLower(path), ".m3u8")
                               THEN IF rev = 1
                                    THEN handleUniversalM3U8Proxy(targetURL, host, path,
                                             prefix, requestHeaders, up)
                                    ELSE handleUniversalM3U8Proxy_r2(targetURL, host,
                                             path, prefix, requestHeaders, up)
                               ELSE segmentProxy("handleUniversalSegmentProxy",
                                                 targetURL, requestHeaders, up)

(***************************************************************************)
(* file_proxy.go (lines 1-205)                                             *)
(***************************************************************************)
\* a handler that panics: net/http recovers and closes the connection
Aborted == [status |-> 0, ctype |-> "", body |-> ""]

fileLink(prefix, resource, encodedHost, headersParam) ==
    webServerURL \o prefix \o resource \o "?host=" \o encodedHost
        \o "&headers=" \o headersParam

processFileKeyURI(line, baseURL, encodedHost, prefix, headersParam) ==
    LET Resolved(uri, resolvedURL) ==
            IF ~resolvedURL.ok THEN line
            ELSE ReplaceFirst(line, uri,
                     fileLink(prefix, resolvedURL.path, encodedHost, headersParam))
        Found(o) ==
            IF ~o.found THEN line ELSE Resolved(o.uri, URLParseIn(baseURL, o.uri))
    IN  Found(originalURI(line))

processFileSegmentURL(line, baseURL, encodedHost, prefix, headersParam) ==
    LET Resolved(resolvedURL) ==
            IF ~resolvedURL.ok THEN line
            ELSE fileLink(prefix, resolvedURL.path, encodedHost, headersParam)
    IN  Resolved(URLParseIn(baseURL, line))

\* the loop of handleFileM3U8Proxy over one line that is not blank
fileLine(trimmed, baseURL, encodedHost, prefix, headersParam) ==
    IF HasPrefix(trimmed, "#")
    THEN IF Contains(trimmed, "URI=")
         THEN processFileKeyURI(trimmed, baseURL, encodedHost, prefix, headersParam)
         ELSE trimmed
    ELSE processFileSegmentURL(trimmed, baseURL, encodedHost, prefix, headersParam)

handleFileM3U8Proxy(targetURL, host, originalPath, prefix, headers, up) ==
    \E target \in {URLString(targetURL)} :
    \E req \in {makeRequest(target, headers)} :
        IF ~req.ok \/ up.err
        THEN Answer(Outcome("handleFileM3U8Proxy", req,
                            sendError(502, "Failed to fetch m3u8 content"), None), up)
        ELSE IF up.status # 200
        THEN Answer(Outcome("handleFileM3U8Proxy", req,
                            sendError(502, "Upstream returned " \o Itoa(up.status)),
                            None), up)
        ELSE \E body \in {readResponseBody(up)} :
        IF ~body.ok
        THEN Answer(Outcome("handleFileM3U8Proxy", req,
                            sendError(500, "Failed to read m3u8 content"), None), up)
        ELSE \E lines \in {Split(body.s, "\n")} :
             \E headersParam \in {QueryEscape(JSONMarshal(headers))} :
             \E encodedHost \in {QueryEscape(host)} :
             \E baseURL \in {IF LastIndex(originalPath, "/") # -1
                              THEN URLParseIn(targetURL, basePathOf(originalPath))
                              ELSE targetURL} :
                 IF ~baseURL.ok
                 THEN Answer(Outcome("handleFileM3U8Proxy", req, Aborted, None), up)
                 ELSE \E from \in {NonBlankFrom(lines, 1)} :
                      \E newLines \in
                             {[j \in 1..Len(from) |->
                                 fileLine(TrimSpace(lines[from[j]]), baseURL,
                                          encodedHost, prefix, headersParam)]} :
                          Answer(Outcome("handleFileM3U8Proxy", req,
                                         playlistResponse(newLines),
                                         Rewritten("handleFileM3U8Proxy", target,
                                                   headers, host, prefix, lines,
                                                   newLines, from)), up)

(***************************************************************************)
(* unnamed/part_000, first revision of the file relay (lines 1-190)        *)
(***************************************************************************)
processFileKeyURI_r2(line, host, basePath, prefix, headersParam) ==
    LET Found(o) ==
            IF ~o.found THEN line
            ELSE fileLink(prefix,
                          TrimPrefix(IF IsAbsolute(o.uri) THEN o.uri
                                     ELSE host \o basePath \o o.uri, "/"),
                          QueryEscape(host), headersParam)
    IN  Found(originalURI(line))

processFileSegmentURL_r2(line, host, basePath, prefix, headersParam) ==
    LET Trimmed(trimmed) ==
            fileLink(prefix,
                     TrimPrefix(IF ~IsAbsolute(trimmed) THEN basePath \o trimmed
                                ELSE trimmed, "/"),
                     QueryEscape(host), headersParam)
    IN  Trimmed(TrimSpace(line))

handleFileM3U8Proxy_r2(targetURL, host, originalPath, prefix, headers, up) ==
    \E req \in {makeRequest(targetURL, headers)} :
        IF ~req.ok \/ up.err
        THEN Answer(Outcome("handleFileM3U8Proxy", req,
                            sendError(502, "Failed to fetch m3u8 content"), None), up)
        ELSE IF up.status # 200
        THEN Answer(Outcome("handleFileM3U8Proxy", req,
                            sendError(up.status, "Upstream server returned error"),
                            None), up)
        ELSE IF ~HasPrefix(TrimSpace(up.body), "#EXTM3U")
        THEN Answer(Outcome("handleFileM3U8Proxy", req,
                            sendError(502, "Invalid m3u8 content"), None), up)
        ELSE \E lines \in {Split(up.body, "\n")} :
             \E headersParam \in {QueryEscape(JSONMarshal(headers))} :
             \E basePath \in {basePathOf(originalPath)} :
             \E newLines \in
                    {[i \in 1..Len(lines) |->
                        IF TrimSpace(lines[i]) = "" THEN lines[i]
                        ELSE IF HasPrefix(lines[i], "#")
                        THEN IF Contains(lines[i], "URI=")
                             THEN processFileKeyURI_r2(lines[i], host, basePath,
                                                       prefix, headersParam)
                             ELSE lines[i]
                        ELSE processFileSegmentURL_r2(lines[i], host, basePath,
                                                      prefix, headersParam)]} :
                 Answer(Outcome("handleFileM3U8Proxy", req,
                                playlistResponse(newLines),
                                Rewritten("handleFileM3U8Proxy", targetURL, headers,
                                          host, prefix, lines, newLines,
                                          EveryLine(lines))), up)

(***************************************************************************)
(* unnamed/part_000, second revision of the file relay (lines 192-371)     *)
(***************************************************************************)
\* The revision names the response header with U+2011 in place of the
\* hyphen, which is not a valid field name: net/http drops it on write and
\* sets Content-Type from the first bytes of the body (http.DetectContentType,
\* here for the two kinds of body the model has).
sniffContentType(body) ==
    IF HasPrefix(ToUpper(TrimSpace(body)), "<HTML>") THEN "text/html; charset=utf-8"
    ELSE "text/plain; charset=utf-8"

processFileKeyURI_r3(line, baseURL, encodedHost, prefix, headersParam) ==
    LET Parsed(uri, parsed) ==
            IF ~parsed.ok THEN line
            ELSE ReplaceFirst(line, uri,
                     fileLink(prefix, TrimPrefix(parsed.path, "/"), encodedHost,
                              headersParam))
        Found(o) ==
            IF ~o.found THEN line
            ELSE Parsed(o.uri, ParseURL(resolveURL(baseURL, o.uri)))
    IN  Found(originalURI(line))

processFileSegmentURL_r3(line, baseURL, encodedHost, prefix, headersParam) ==
    LET Parsed(parsed) ==
            IF ~parsed.ok THEN line
            ELSE fileLink(prefix, TrimPrefix(parsed.path, "/"), encodedHost,
                          headersParam)
    IN  Parsed(ParseURL(resolveURL(baseURL, line)))

\* the loop of the revision's handleFileM3U8Proxy over one line that is not
\* blank
fileLine_r3(trimmed, targetURL, encodedHost, prefix, headersParam) ==
    IF HasPrefix(trimmed, "#")
    THEN IF Contains(trimmed, "URI=")
         THEN processFileKeyURI_r3(trimmed, targetURL, encodedHost, prefix,
                                   headersParam)
         ELSE trimmed
    ELSE processFileSegmentURL_r3(trimmed, targetURL, encodedHost, prefix,
                                  headersParam)

handleFileM3U8Proxy_r3(targetURL, host, originalPath, prefix, headers, up) ==
    \E req \in {makeRequest(targetURL, headers)} :
        IF ~req.ok \/ up.err
        THEN Answer(Outcome("handleFileM3U8Proxy", req,
                            sendError(502, "Failed to fetch m3u8 content"), None), up)
        ELSE \E body \in {readResponseBody(up)} :
        IF ~body.ok
        THEN Answer(Outcome("handleFileM3U8Proxy", req,
                            sendError(500, "Failed to read m3u8 content"), None), up)
        ELSE \E lines \in {Split(body.s, "\n")} :
             \E headersParam \in {QueryEscape(JSONMarshal(headers))} :
             \E encodedHost \in {QueryEscape(host)} :
             \E from \in {NonBlankFrom(lines, 1)} :
             \E newLines \in
                    {[j \in 1..Len(from) |->
                        fileLine_r3(TrimSpace(lines[from[j]]), targetURL, encodedHost,
                                    prefix, headersParam)]} :
                 Answer(Outcome("handleFileM3U8Proxy", req,
                                [playlistResponse(newLines) EXCEPT
                                    !.ctype = sniffContentType(Join(newLines, "\n"))],
                                Rewritten("handleFileM3U8Proxy", targetURL, headers,
                                          host, prefix, lines, newLines, from)), up)

\* handleFileSegmentProxy of the second revision: the upstream Content-Type is
\* looked up, and the response header set, under the invalid field name
handleFileSegmentProxy_r3(targetURL, headers, up) ==
    \E req \in {makeRequest(targetURL, headers)} :
        IF ~req.ok \/ up.err
        THEN Answer(Outcome("handleFileSegmentProxy", req,
                            sendError(502, "Failed to proxy segment"), None), up)
        ELSE Answer(Outcome("handleFileSegmentProxy", req,
                            [status |-> up.status,
                             ctype |-> sniffContentType(up.body),
                             encoding |-> "",
                             body |-> up.body],
                            None), up)

\* file_proxy.go, fileProxyHandler from the target URL on: the URL is parsed
\* to validate it, and handed on as a parsed URL
fileProxyHandler_r1(host, decodedPath, prefix, parsedHeaders, isM3U8, up) ==
    \E pathWithSlash \in {IF HasPrefix(decodedPath, "/") THEN decodedPath
                           ELSE "/" \o decodedPath} :
    \E targetURL \in {ParseURL(TrimSuffix(host, "/") \o pathWithSlash)} :
        IF ~targetURL.ok
        THEN Answer(Outcome("fileProxyHandler", None,
                            sendError(400, "Failed to construct target URL"), None),
                    up)
        ELSE \E requestHeaders \in
                    {generateRequestHeaders(URLString(targetURL), parsedHeaders)} :
                 IF isM3U8
                 THEN handleFileM3U8Proxy(targetURL, host, decodedPath, prefix,
                                          requestHeaders, up)
                 ELSE segmentProxy("handleFileSegmentProxy", URLString(targetURL),
                                   requestHeaders, up)

\* unnamed/part_000, fileProxyHandler of both revisions from the target URL on
fileProxyHandler_r2(host, decodedPath, prefix, parsedHeaders, isM3U8, up, rev) ==
    \E targetURL \in {TrimSuffix(host, "/") \o "/" \o decodedPath} :
    \E requestHeaders \in {generateRequestHeaders(targetURL, parsedHeaders)} :
        IF isM3U8
        THEN IF rev = 2
             THEN handleFileM3U8Proxy_r2(targetURL, host, decodedPath, prefix,
                                         requestHeaders, up)
             ELSE handleFileM3U8Proxy_r3(targetURL, host, decodedPath, prefix,
                                         requestHeaders, up)
        ELSE IF rev = 2
        THEN segmentProxy("handleFileSegmentProxy", targetURL, requestHeaders, up)
        ELSE handleFileSegmentProxy_r3(targetURL, requestHeaders, up)

\* fileProxyHandler; rev selects the revision (1: file_proxy.go, 2 and 3: the
\* two revisions of unnamed/part_000)
fileProxyHandler(r, up, rev) ==
    \E pathParts \in {SplitN2(TrimPrefix(r.path, "/"), "/")} :
        IF Len(pathParts) < 2
        THEN Answer(Outcome("fileProxyHandler", None,
                            sendError(400, "Invalid file proxy path"), None), up)
        ELSE \E prefix \in {"/" \o pathParts[1] \o "/"} :
             \E path \in {pathParts[2]} :
             \E unescaped \in {PathUnescape(path)} :
             \E decodedPath \in {IF unescaped.ok THEN unescaped.s ELSE path} :
                 IF decodedPath = ""
                 THEN Answer(Outcome("fileProxyHandler", None,
                                     sendError(400, "Invalid file proxy path"), None),
                             up)
                 ELSE \E host \in {QueryGet(r.query, "host")} :
                      IF host = ""
                      THEN Answer(Outcome("fileProxyHandler", None,
                                          sendError(400, "host parameter is required"),
                                          None), up)
                      ELSE \E parsedHeaders \in {parseHeadersParam(r.query)} :
                           \E isM3U8 \in {HasSuffix(ToLower(decodedPath), ".m3u8")} :
                               IF rev = 1
                               THEN fileProxyHandler_r1(host, decodedPath, prefix,
                                                        parsedHeaders, isM3U8, up)
                               ELSE fileProxyHandler_r2(host, decodedPath, prefix,
                                                        parsedHeaders, isM3U8, up, rev)

(***************************************************************************)
(* The players, the routes and the origin                                  *)
(***************************************************************************)
\* the handler families and their revisions: handlers.go (two), v3_proxy.go
\* (two), and the file relay (file_proxy.go and the two of unnamed/part_000)
Builds ==
    [family : {"handlers"}, rev : {1, 2}]
        \cup [family : {"v3"}, rev : {1, 2}]
        \cup [family : {"file"}, rev : {1, 2, 3}]

\* the headers parameter of a caller, who escapes twice what the handlers
\* unescape twice
headersQuery(h) ==
    IF h = "" THEN "" ELSE "&headers=" \o QueryEscape(QueryEscape(h))

\* the requests a player starts with, to the handler family deployed
FreshRequests(family) ==
    IF family = "handlers"
    THEN {[path |-> "/proxy", query |-> ""]}
             \cup {[path |-> "/proxy",
                    query |-> "url=" \o QueryEscape(OriginHost \o "/" \o p)
                                  \o headersQuery(h)] :
                      p \in PlaylistPaths, h \in CallerHeaders}
    ELSE {[path |-> (IF family = "v3" THEN "/hls-playback/" ELSE "/file1/") \o p,
           query |-> "host=" \o QueryEscape(OriginHost) \o headersQuery(h)] :
             p \in PlaylistPaths, h \in CallerHeaders}

\* the routes of the path-prefixed relays, which are registered outside the
\* sources at hand: the handlers name their own paths (v3_proxy.go, line 15,
\* and unnamed/part_000, line 15)
PrefixRoute(path) ==
    IF HasPrefix(path, "/hls-playback/") THEN "universalHLSProxyHandler"
    ELSE IF HasPrefix(path, "/file1/") THEN "fileProxyHandler"
    ELSE "notFound"

\* main.go, routeHandler: the query-parameter endpoints by their path
Route(path) ==
    IF path = "/proxy" THEN "m3u8ProxyHandler"
    ELSE IF path = "/ts-proxy" THEN "tsProxyHandler"
    ELSE IF path = "/mp4-proxy" THEN "mp4ProxyHandler"
    ELSE IF path = "/fetch" THEN "fetchHandler"
    ELSE PrefixRoute(path)

\* the reference a player reads on a line: the line itself, or the quoted
\* value of the URI attribute of a directive; "" when the line has none
Reference(line) ==
    LET Trimmed(trimmed) ==
            IF HasPrefix(trimmed, "#") THEN inlineURI(trimmed) ELSE trimmed
    IN  Trimmed(TrimSpace(line))

\* net/http's ServeMux, with which main.go registers routeHandler, answers a
\* request whose path is not clean with a redirect to the clean path, which
\* the player follows: path.Clean drops empty and "." elements and resolves
\* "..", and cleanPath keeps a trailing slash
RECURSIVE CleanElems(_, _, _)
CleanElems(elems, k, kept) ==
    IF k > Len(elems) THEN kept
    ELSE IF elems[k] \in {"", "."} THEN CleanElems(elems, k + 1, kept)
    ELSE IF elems[k] = ".."
    THEN CleanElems(elems, k + 1,
                    IF kept = <<>> THEN kept ELSE SubSeq(kept, 1, Len(kept) - 1))
    ELSE CleanElems(elems, k + 1, Append(kept, elems[k]))

cleanPath(p) ==
    LET Cleaned(rooted, np) ==
            IF HasSuffix(rooted, "/") /\ np # "/" THEN np \o "/" ELSE np
        Rooted(rooted) ==
            Cleaned(rooted, "/" \o Join(CleanElems(Split(rooted, "/"), 1, <<>>), "/"))
    IN  IF p = "" THEN "/"
        ELSE Rooted(IF CharAt(p, 0) # "/" THEN "/" \o p ELSE p)

Init ==
    /\ build \in Builds
    /\ inbound = None
    /\ followed = None
    /\ outbound = None
    /\ upstream = None
    /\ response = None
    /\ by = ""
    /\ served = None
    /\ direct = ""
    /\ hops = 0
    /\ phase = "idle"
    /\ gets = 0
    /\ redirects = 0
    /\ chain = 0
    /\ callerGone = FALSE
    /\ allowedOrigins = <<>>
    /\ caller = None
    /\ written = None
    /\ slots = <<>>
    /\ idle = 0

\* a player asks the relay for a playlist; every later request of a run
\* follows from the playlist it is served
PlayerRequest ==
    /\ inbound = None
    /\ response = None
    /\ \E r \in FreshRequests(build.family) : inbound' = r
    /\ followed' = None
    /\ outbound' = None
    /\ upstream' = None
    /\ response' = None
    /\ by' = ""
    /\ served' = None
    /\ direct' = ""
    /\ hops' = 0
    /\ UNCHANGED <<concurrentVars, serverVars, build, exchangeVars>>

\* what a player takes for a playlist: RFC 8216 has a playlist begin with the
\* EXTM3U tag
Playable(playlist) ==
    Len(playlist) > 0 /\ HasPrefix(playlist[1], "#EXTM3U")

\* the player requests a relay link of the playlist it was served
PlayerFollow ==
    /\ served # None
    /\ Playable(served.newLines)
    /\ hops < MaxHops
    /\ \E j \in 1..Len(served.newLines) :
       \E link \in {Reference(served.newLines[j])} :
       \E u \in {ParseURL(link)} :
          /\ HasPrefix(link, webServerURL)
          /\ u.ok
          /\ inbound' = [path |-> cleanPath(u.path), query |-> u.query]
          /\ followed' = [link |-> link,
                          ref |-> Reference(served.lines[served.from[j]]),
                          base |-> served.base,
                          headers |-> served.headers]
    /\ outbound' = None
    /\ upstream' = None
    /\ response' = None
    /\ by' = ""
    /\ served' = None
    /\ hops' = hops + 1
    /\ UNCHANGED <<concurrentVars, serverVars, build, direct, exchangeVars>>

\* the player fetches, from the host it names, an absolute URL the relay left
\* as it was
PlayerDirect ==
    /\ served # None
    /\ Playable(served.newLines)
    /\ direct = ""
    /\ \E j \in 1..Len(served.newLines) :
       \E link \in {Reference(served.newLines[j])} :
          /\ IsAbsolute(link)
          /\ ~HasPrefix(link, webServerURL)
          /\ direct' = link
    /\ UNCHANGED <<concurrentVars, serverVars, build, inbound, followed, outbound, upstream, response, by,
                   served, hops, exchangeVars>>

M3U8Proxy ==
    /\ inbound # None
    /\ Route(inbound.path) = "m3u8ProxyHandler"
    /\ \E up \in UpstreamResults(hops) :
          IF build.rev = 1 THEN m3u8ProxyHandler(inbound, up)
          ELSE m3u8ProxyHandler_r2(inbound, up)
    /\ UNCHANGED concurrentVars

TSProxy ==
    /\ inbound # None
    /\ Route(inbound.path) = "tsProxyHandler"
    /\ \E up \in UpstreamResults(hops) :
          IF build.rev = 1 THEN tsProxyHandler(inbound, up)
          ELSE tsProxyHandler_r2(inbound, up)
    /\ UNCHANGED concurrentVars

UniversalHLSProxy ==
    /\ inbound # None
    /\ Route(inbound.path) = "universalHLSProxyHandler"
    /\ \E up \in UpstreamResults(hops) :
          universalHLSProxyHandler(inbound, up, build.rev)
    /\ UNCHANGED concurrentVars

FileProxy ==
    /\ inbound # None
    /\ Route(inbound.path) = "fileProxyHandler"
    /\ \E up \in UpstreamResults(hops) :
          fileProxyHandler(inbound, up, build.rev)
    /\ UNCHANGED concurrentVars

Next ==
    \/ PlayerRequest
    \/ PlayerFollow
    \/ PlayerDirect
    \/ M3U8Proxy
    \/ TSProxy
    \/ UniversalHLSProxy
    \/ FileProxy

Spec == Init /\ [][Next]_vars

(***************************************************************************)
(* net/http: the header of the outbound request, and the client            *)
(***************************************************************************)
\* the bytes of a header name (a token of RFC 7230), of the characters
\* strings are made of here
TokenChars == Letters \cup Digits \cup CharsOf("!#$%&'*+-.^_|~")

RECURSIVE CanonicalFrom(_, _, _)
CanonicalFrom(s, i, upper) ==
    IF i >= Len(s) THEN ""
    ELSE (IF upper THEN ToUpper(CharAt(s, i)) ELSE ToLower(CharAt(s, i)))
             \o CanonicalFrom(s, i + 1, CharAt(s, i) = "-")

\* textproto.CanonicalMIMEHeaderKey, which http.Header.Set applies to a name
CanonicalMIMEHeaderKey(s) ==
    IF \E i \in 0..(Len(s) - 1) : CharAt(s, i) \notin TokenChars THEN s
    ELSE CanonicalFrom(s, 0, TRUE)

\* for k, v := range headers { req.Header.Set(k, v) }: the headers a request
\* can leave with.  Go ranges over a map in an order that is not specified,
\* and of the names that Set takes for the same header the last one wins
RECURSIVE HeaderChoices(_, _)
HeaderChoices(names, headers) ==
    IF names = {} THEN {EmptyHeaders}
    ELSE LET n == CHOOSE x \in names : TRUE
         IN  {w @@ (n :> headers[k]) :
                 w \in HeaderChoices(names \ {n}, headers),
                 k \in {x \in DOMAIN headers : CanonicalMIMEHeaderKey(x) = n}}

WireHeaders(headers) ==
    HeaderChoices({CanonicalMIMEHeaderKey(k) : k \in DOMAIN headers}, headers)

\* CheckRedirect of every client: len(via) >= 5
RedirectLimit == 5

\* utils.go: the Timeout, in seconds, of the client makeRequest creates
RequestTimeout == 30

\* the Timeout of the client a revision of handlers.go fetches with: the
\* client of makeRequest, or sharedClient, which has none
clientTimeout(rev) == IF rev = 1 THEN RequestTimeout ELSE 0

\* CheckRedirect, asked before the client follows a redirect, with the
\* number of requests it has sent so far
CheckRedirect(via) == via < RedirectLimit

\* http.NewRequest and client.Do: the request an exchange begins with.  The
\* request is made without the context of the inbound request
newRequest(targetURL, headers, wire, rev) ==
    [url |-> targetURL, headers |-> headers, ok |-> TRUE, wire |-> wire,
     timeout |-> clientTimeout(rev), ctx |-> "background"]

(***************************************************************************)
(* handlers.go: the container relay, mp4ProxyHandler and fetchHandler      *)
(***************************************************************************)
\* headers[k] = v
withHeader(headers, k, v) ==
    [x \in DOMAIN headers \cup {k} |-> IF x = k THEN v ELSE headers[x]]

\* the error body of the second fetchHandler, without the text of the error
requestFailed ==
    [status |-> 500, ctype |-> "application/json",
     body |-> "{\"message\":\"Request failed\"}"]

\* a handler that answers without an outbound request
Rejected(resp) ==
    [reject |-> TRUE, response |-> resp, targetURL |-> "", headers |-> EmptyHeaders]

\* a handler that is ready to fetch targetURL with headers
Prepared(targetURL, headers) ==
    [reject |-> FALSE, response |-> None, targetURL |-> targetURL,
     headers |-> headers]

\* what a handler answers when http.NewRequest fails
createError(handler, rev) ==
    IF rev = 1
    THEN sendError(502, IF handler = "mp4ProxyHandler"
                        THEN "Failed to proxy mp4 content"
                        ELSE "Failed to fetch content")
    ELSE IF handler = "mp4ProxyHandler" THEN sendError(500, "Failed to create request")
    ELSE requestFailed

\* what a handler answers when client.Do fails
fetchError(handler, rev) ==
    IF rev = 1
    THEN sendError(502, IF handler = "mp4ProxyHandler"
                        THEN "Failed to proxy mp4 content"
                        ELSE "Failed to fetch content")
    ELSE IF handler = "mp4ProxyHandler"
    THEN sendError(500, "Failed to proxy mp4 content")
    ELSE requestFailed

\* mp4ProxyHandler (lines 98-119), up to the outbound request
mp4ProxyHandler(r) ==
    LET Ranged(requestHeaders) ==
            IF r.range # "" THEN withHeader(requestHeaders, "Range", r.range)
            ELSE requestHeaders
        Valid(v) ==
            IF ~v.ok THEN Rejected(sendError(400, "URL parameter is required"))
            ELSE Prepared(v.targetURL,
                          Ranged(generateRequestHeaders(v.targetURL, v.parsedHeaders)))
    IN  Valid(validateRequest(r))

\* mp4ProxyHandler of the second revision (lines 493-524) and of
\* unnamed/part_003 (lines 214-245), up to the outbound request
mp4ProxyHandler_r2(r, rev) ==
    LET Ranged(parsedHeaders) ==
            IF r.range # "" THEN withHeader(parsedHeaders, "Range", r.range)
            ELSE parsedHeaders
        Valid(v) ==
            IF ~v.ok THEN Rejected(sendError(400, "URL parameter is required"))
            ELSE Prepared(v.targetURL,
                          requestHeadersOf(rev, v.targetURL, Ranged(v.parsedHeaders)))
    IN  Valid(validateRequest(r))

\* fetchHandler (lines 158-178), up to the outbound request
fetchHandler(r) ==
    LET Referred(requestHeaders, referer) ==
            IF referer # "" THEN withHeader(requestHeaders, "Referer", referer)
            ELSE requestHeaders
        Target(targetURL) ==
            IF targetURL = ""
            THEN Rejected(sendError(400, "URL parameter is required"))
            ELSE Prepared(targetURL,
                          Referred(generateRequestHeaders(targetURL, EmptyHeaders),
                                   QueryGet(r.query, "ref")))
    IN  Target(QueryGet(r.query, "url"))

\* fetchHandler of the second revision (lines 560-618) and of
\* unnamed/part_003 (lines 281-339), up to the outbound request
fetchHandler_r2(r, rev) ==
    LET Ranged(parsedHeaders) ==
            IF r.range # "" /\ "Range" \notin DOMAIN parsedHeaders
            THEN withHeader(parsedHeaders, "Range", r.range)
            ELSE parsedHeaders
        Referred(parsedHeaders, referer) ==
            IF referer # "" THEN withHeader(parsedHeaders, "Referer", referer)
            ELSE parsedHeaders
        NonEmpty(requestHeaders) ==
            [k \in {x \in DOMAIN requestHeaders : requestHeaders[x] # ""} |->
                requestHeaders[k]]
        Target(targetURL) ==
            IF targetURL = ""
            THEN Rejected(sendError(400, "URL parameter is required"))
            ELSE Prepared(targetURL,
                          NonEmpty(requestHeadersOf(rev, targetURL,
                              Ranged(Referred(parseHeadersParam(r.query),
                                              QueryGet(r.query, "ref"))))))
    IN  Target(QueryGet(r.query, "url"))

\* the headers a handler copies when the upstream sent them
copied(up, names) ==
    [k \in {x \in names : up.header[x] # ""} |-> up.header[k]]

\* a mp4ProxyHandler that copies the Content-Type alone
mp4ResponseWithoutRange(up) ==
    [status |-> up.status,
     header |-> [k \in {"Content-Type", "Accept-Ranges"} |->
                    IF k = "Accept-Ranges" THEN "bytes"
                    ELSE IF up.header[k] # "" THEN up.header[k] ELSE "video/mp4"],
     complete |-> FALSE]

\* mp4ProxyHandler, from the upstream's response to WriteHeader (lines
\* 122-149; lines 527-554 of the second revision are the same)
mp4Response(up) ==
    [status |-> up.status,
     header |->
        [k \in {"Access-Control-Allow-Origin", "Access-Control-Allow-Methods",
                "Access-Control-Allow-Headers", "Content-Disposition"} |->
            IF k = "Access-Control-Allow-Origin" THEN "*"
            ELSE IF k = "Access-Control-Allow-Methods" THEN "GET, OPTIONS"
            ELSE IF k = "Access-Control-Allow-Headers"
            THEN "Content-Type, Authorization, Range"
            ELSE "inline"]
        @@ copied(up, {"Content-Length", "Content-Range"})
        @@ [k \in {"Content-Type", "Accept-Ranges"} |->
               IF up.header[k] # "" THEN up.header[k]
               ELSE IF k = "Content-Type" THEN "video/mp4" ELSE "bytes"],
     complete |-> FALSE]

\* fetchHandler, from the upstream's response to WriteHeader (lines 181-186)
fetchResponse(up) ==
    [status |-> up.status, header |-> copied(up, {"Content-Type"}),
     complete |-> FALSE]

\* fetchHandler of the second revision (lines 621-635)
fetchResponse_r2(up) ==
    [status |-> up.status,
     header |-> copied(up, {"Content-Type", "Content-Length", "Content-Range",
                            "Accept-Ranges"}),
     complete |-> FALSE]

\* a handler that starts again after a failed fetch
retryAfterFetchError == "received"

\* where a handler is after it has answered a failed fetch: it has returned
afterFetchError == "done"

(***************************************************************************)
(* The exchange of a container request: the caller, the handler, the       *)
(* client and the origin, step by step                                     *)
(***************************************************************************)
\* redirects the origin answers with before its last answer
MaxRedirects == 6

\* the revisions of handlers.go with the container relay: handlers.go (two)
\* and unnamed/part_003
ExchangeBuilds == [family : {"handlers"}, rev : {1, 2, 3}]

\* the targets of container requests: none, one that url.Parse refuses, a
\* host no header rule names, and hosts the rules of headers.go and of
\* unnamed/part_003 name
ContainerTargets ==
    {"", "%zz", OriginHost \o "/v.mp4", "https://cdn.example.com/v.mp4",
     "https://videostr.net/v.mp4"}

\* the overrides of a container request: none, a Range, and a User-Agent
\* under a name in lower case
ContainerHeaders == {"", "{\"Range\":\"bytes=5-9\"}", "{\"user-agent\":\"UA\"}"}

\* the Range header of the inbound request, "" for none
InboundRanges == {"", "bytes=100-199"}

\* the ref parameter of a /fetch request, "" for none
Referers == {"", "https://r.z/"}

containerQuery(targetURL, h, ref) ==
    (IF targetURL = "" THEN "x=1" ELSE "url=" \o QueryEscape(targetURL))
        \o headersQuery(h)
        \o (IF ref = "" THEN "" ELSE "&ref=" \o QueryEscape(ref))

ContainerRequests ==
    {[path |-> "/mp4-proxy", query |-> containerQuery(t, h, ""), range |-> g] :
        t \in ContainerTargets, h \in ContainerHeaders, g \in InboundRanges}
      \cup
    {[path |-> "/fetch", query |-> containerQuery(t, h, ref), range |-> g] :
        t \in ContainerTargets, h \in ContainerHeaders, g \in InboundRanges,
        ref \in Referers}

\* a response of the origin to a container request: its status, and its
\* Content-Type, Content-Length, Content-Range and Accept-Ranges, "" for a
\* header it does not send
OriginAnswer(status, ctype, clen, crange, aranges) ==
    [err |-> FALSE, status |-> status,
     header |-> [k \in {"Content-Type", "Content-Length", "Content-Range",
                        "Accept-Ranges"} |->
                    IF k = "Content-Type" THEN ctype
                    ELSE IF k = "Content-Length" THEN clen
                    ELSE IF k = "Content-Range" THEN crange
                    ELSE aranges]]

ContainerAnswers ==
    {OriginAnswer(200, "video/mp4", "1000", "", ""),
     OriginAnswer(206, "video/mp4", "100", "bytes 100-199/1000", "bytes"),
     OriginAnswer(200, "", "", "", "none"),
     OriginAnswer(404, "text/html", "", "", "")}

\* a fetch that ended without a response of the origin
FetchError(reason) == [err |-> TRUE, reason |-> reason]

InitExchange ==
    /\ build \in ExchangeBuilds
    /\ inbound = None
    /\ followed = None
    /\ outbound = None
    /\ upstream = None
    /\ response = None
    /\ by = ""
    /\ served = None
    /\ direct = ""
    /\ hops = 0
    /\ phase = "idle"
    /\ gets = 0
    /\ redirects = 0
    /\ chain = 0
    /\ callerGone = FALSE
    /\ allowedOrigins = <<>>
    /\ caller = None
    /\ written = None
    /\ slots = <<>>
    /\ idle = 0

\* a caller sends a container request; the origin will answer the fetch with
\* chain redirects, one after the other, and then with a response.  The
\* handlers keep nothing from one request to the next, and a run follows one
CallerRequest ==
    /\ phase = "idle"
    /\ \E r \in ContainerRequests : inbound' = r
    /\ \E n \in 0..MaxRedirects : chain' = n
    /\ phase' = "received"
    /\ gets' = 0
    /\ redirects' = 0
    /\ callerGone' = FALSE
    /\ outbound' = None
    /\ upstream' = None
    /\ response' = None
    /\ by' = ""
    /\ UNCHANGED <<concurrentVars, serverVars, build, followed, served, direct, hops>>

\* the handler runs up to client.Do: it answers at once, or its request leaves
begin(handler, p) ==
    /\ by' = handler
    /\ IF p.reject \/ ~ParseURL(p.targetURL).ok
       THEN /\ response' = IF p.reject THEN p.response
                           ELSE createError(handler, build.rev)
            /\ outbound' = None
            /\ phase' = "done"
            /\ gets' = gets
       ELSE /\ \E wire \in WireHeaders(p.headers) :
                  outbound' = newRequest(p.targetURL, p.headers, wire, build.rev)
            /\ response' = None
            /\ phase' = "pending"
            /\ gets' = gets + 1
    /\ UNCHANGED <<concurrentVars, serverVars, build, inbound, followed, upstream, served, direct, hops,
                   redirects, chain, callerGone>>

\* the handler of the request in hand, up to the outbound request
prepared ==
    IF Route(inbound.path) = "mp4ProxyHandler"
    THEN IF build.rev = 1 THEN mp4ProxyHandler(inbound)
         ELSE mp4ProxyHandler_r2(inbound, build.rev)
    ELSE IF build.rev = 1 THEN fetchHandler(inbound)
         ELSE fetchHandler_r2(inbound, build.rev)

Mp4Proxy ==
    /\ phase = "received"
    /\ Route(inbound.path) = "mp4ProxyHandler"
    /\ begin("mp4ProxyHandler", prepared)

Fetch ==
    /\ phase = "received"
    /\ Route(inbound.path) = "fetchHandler"
    /\ begin("fetchHandler", prepared)

\* the origin answers the pending request with a redirect: the client asks
\* CheckRedirect with the requests sent so far, and follows the redirect or
\* ends the fetch with an error, which the handler answers
OriginRedirects ==
    /\ phase = "pending"
    /\ redirects < chain
    /\ redirects' = redirects + 1
    /\ IF CheckRedirect(redirects + 1)
       THEN UNCHANGED <<phase, upstream, response>>
       ELSE /\ upstream' = FetchError("stopped after 5 redirects")
            /\ response' = fetchError(by, build.rev)
            /\ phase' = afterFetchError
    /\ UNCHANGED <<concurrentVars, serverVars, build, inbound, followed, outbound, by, served, direct, hops,
                   gets, chain, callerGone>>

\* the origin answers the pending request with its response: the handler
\* writes the status and the headers, and begins to copy the body
OriginAnswers ==
    /\ phase = "pending"
    /\ redirects = chain
    /\ \E up \in ContainerAnswers :
          /\ upstream' = up
          /\ response' = IF by = "mp4ProxyHandler" THEN mp4Response(up)
                         ELSE IF build.rev = 1 THEN fetchResponse(up)
                         ELSE fetchResponse_r2(up)
    /\ phase' = "streaming"
    /\ UNCHANGED <<concurrentVars, serverVars, build, inbound, followed, outbound, by, served, direct, hops,
                   gets, redirects, chain, callerGone>>

\* the connection to the origin fails while the request is pending
OriginFails ==
    /\ phase = "pending"
    /\ upstream' = FetchError("connection")
    /\ response' = fetchError(by, build.rev)
    /\ phase' = afterFetchError
    /\ UNCHANGED <<concurrentVars, serverVars, build, inbound, followed, outbound, by, served, direct, hops,
                   gets, redirects, chain, callerGone>>

\* the Timeout of the client, when it has one, ends the exchange: a pending
\* fetch fails, and a body that is being copied is cut
ClientTimeout ==
    /\ phase \in {"pending", "streaming"}
    /\ outbound.timeout > 0
    /\ IF phase = "pending"
       THEN /\ upstream' = FetchError("timeout")
            /\ response' = fetchError(by, build.rev)
            /\ phase' = afterFetchError
       ELSE /\ phase' = "done"
            /\ UNCHANGED <<upstream, response>>
    /\ UNCHANGED <<concurrentVars, serverVars, build, inbound, followed, outbound, by, served, direct, hops,
                   gets, redirects, chain, callerGone>>

\* the origin sends the body: io.Copy writes it to the caller and the handler
\* returns; a write to a caller that is gone fails, and the handler returns
StreamBody ==
    /\ phase = "streaming"
    /\ response' = [response EXCEPT !.complete = ~callerGone]
    /\ phase' = "done"
    /\ UNCHANGED <<concurrentVars, serverVars, build, inbound, followed, outbound, upstream, by, served,
                   direct, hops, gets, redirects, chain, callerGone>>

\* the caller closes its connection while the handler is at work.  An
\* outbound request made with the context of the inbound request ends here;
\* one made without it goes on
CallerDisconnects ==
    /\ phase \in {"pending", "streaming"}
    /\ ~callerGone
    /\ callerGone' = TRUE
    /\ phase' = IF outbound.ctx = "request" THEN "done" ELSE phase
    /\ UNCHANGED <<concurrentVars, serverVars, build, inbound, followed, outbound, upstream, response, by,
                   served, direct, hops, gets, redirects, chain>>

NextExchange ==
    \/ CallerRequest
    \/ Mp4Proxy
    \/ Fetch
    \/ OriginRedirects
    \/ OriginAnswers
    \/ OriginFails
    \/ ClientTimeout
    \/ StreamBody
    \/ CallerDisconnects

SpecExchange == InitExchange /\ [][NextExchange]_vars

(***************************************************************************)
(* main.go: the server around the handlers.  One request of any shape      *)
(* reaches routeHandler, corsMiddleware runs, and the handler answers      *)
(***************************************************************************)
\* main, lines 30-36: ALLOWED_ORIGINS split at commas, each part trimmed
allowedOriginsOf(allowedOriginsStr) ==
    LET Trimmed(parts) == [i \in 1..Len(parts) |-> TrimSpace(parts[i])]
    IN  IF allowedOriginsStr = "" THEN <<>>
        ELSE Trimmed(Split(allowedOriginsStr, ","))

contains(slice, item) == \E i \in 1..Len(slice) : slice[i] = item

\* corsMiddleware, up to the test of the method: the headers it sets
corsMiddleware(r) ==
    (IF Len(allowedOrigins) = 0 THEN "Access-Control-Allow-Origin" :> "*"
     ELSE IF r.origin # "" /\ contains(allowedOrigins, r.origin)
     THEN "Access-Control-Allow-Origin" :> r.origin
     ELSE EmptyHeaders)
        @@ [k \in {"Access-Control-Allow-Methods", "Access-Control-Allow-Headers",
                   "Access-Control-Allow-Credentials"} |->
               IF k = "Access-Control-Allow-Methods" THEN "GET, OPTIONS"
               ELSE IF k = "Access-Control-Allow-Headers"
               THEN "Content-Type, Authorization, Range"
               ELSE "true"]

\* corsMiddleware answers a preflight request itself
preflightResponse == [status |-> 200, ctype |-> "", body |-> ""]

\* the endpoints routeHandler wraps in corsMiddleware
Wrapped(path) ==
    Route(path) \in {"m3u8ProxyHandler", "tsProxyHandler", "mp4ProxyHandler",
                     "fetchHandler"}

\* the response header as net/http writes it: what the handler set with
\* w.Header().Set, over what corsMiddleware had set before it
wroteHeader ==
    (IF "header" \in DOMAIN response THEN response.header
     ELSE IF response.ctype # "" THEN "Content-Type" :> response.ctype
     ELSE EmptyHeaders)
        @@ (IF written = None THEN EmptyHeaders ELSE written)

\* the values of ALLOWED_ORIGINS: unset, and a list of two origins
AllowedOriginsEnv == {"", "https://a.x, https://b.x"}

\* the Origin header of a caller: none, an origin of the list, another one
CallerOrigins == {"", "https://a.x", "https://e.x"}

Methods == {"GET", "OPTIONS"}

\* headers parameters that are not JSON, as the handler reads them after
\* r.URL.Query(): text after the object, and an object cut short
MalformedHeaders == {"{\"Referer\":\"v\"} x", "{\"Referer\":"}

\* the headers parameter of a request: none, malformed JSON written as
\* headersQuery writes it, and a value that url.QueryUnescape refuses
HeaderQueries ==
    {""} \cup {headersQuery(h) : h \in MalformedHeaders}
         \cup {"&headers=" \o QueryEscape("%zz")}

\* what segments are asked for: with a query, with an image suffix inside the
\* path, and by suffix
SegmentTargets == {"/s.ts?t=1", "/a.jpg/s", "/i.png", "/s.ts", "/k"}

\* path and query of the requests a server of a family receives: without
\* the target (no url, no host, no path), for a playlist, and for segments
ServerTargets(family) ==
    IF family = "handlers"
    THEN {[path |-> p, query |-> "x=1"] :
             p \in {"/proxy", "/ts-proxy", "/mp4-proxy", "/fetch"}}
         \cup {[path |-> "/proxy",
                query |-> "url=" \o QueryEscape(OriginHost \o "/p.m3u8") \o q] :
                  q \in HeaderQueries}
         \cup {[path |-> "/ts-proxy",
                query |-> "url=" \o QueryEscape(OriginHost \o t)] :
                  t \in SegmentTargets}
         \cup {[path |-> p,
                query |-> "url=" \o QueryEscape(OriginHost \o "/v.mp4") \o q] :
                  p \in {"/mp4-proxy", "/fetch"}, q \in HeaderQueries}
    ELSE LET prefix == IF family = "v3" THEN "/hls-playback/" ELSE "/file1/" IN
         {[path |-> prefix, query |-> "host=" \o QueryEscape(OriginHost)],
          [path |-> prefix \o "p.m3u8", query |-> "x=1"]}
         \cup {[path |-> prefix \o "p.m3u8",
                query |-> "host=" \o QueryEscape(OriginHost) \o q] :
                  q \in HeaderQueries}
         \cup {[path |-> prefix \o TrimPrefix(t, "/"),
                query |-> "host=" \o QueryEscape(OriginHost)] :
                  t \in SegmentTargets \ {"/s.ts?t=1"}}

\* the builds a server runs: every family and revision
ServerBuilds == Builds \cup ExchangeBuilds

InitServer ==
    /\ build \in ServerBuilds
    /\ allowedOrigins \in {allowedOriginsOf(env) : env \in AllowedOriginsEnv}
    /\ inbound = None
    /\ followed = None
    /\ outbound = None
    /\ upstream = None
    /\ response = None
    /\ by = ""
    /\ served = None
    /\ direct = ""
    /\ hops = 0
    /\ phase = "idle"
    /\ gets = 0
    /\ redirects = 0
    /\ chain = 0
    /\ callerGone = FALSE
    /\ caller = None
    /\ written = None
    /\ slots = <<>>
    /\ idle = 0

\* a request arrives: on the endpoints of routeHandler corsMiddleware sets
\* its headers and answers a preflight request; any other request goes on to
\* its handler.  The caller is a player that has followed the links of a
\* playlist, and the origin answers as it answers a followed link.
ServerRequest ==
    /\ caller = None
    /\ \E t \in ServerTargets(build.family) :
       \E method \in Methods :
       \E origin \in CallerOrigins :
       \E r \in {[path |-> t.path, query |-> t.query, method |-> method,
                  origin |-> origin, range |-> ""]} :
          /\ caller' = r
          /\ written' = IF Wrapped(r.path) THEN corsMiddleware(r) ELSE None
          /\ IF Wrapped(r.path) /\ r.method = "OPTIONS"
             THEN /\ inbound' = None
                  /\ response' = preflightResponse
                  /\ by' = "corsMiddleware"
                  /\ phase' = "idle"
                  /\ chain' = 0
             ELSE /\ inbound' = r
                  /\ response' = None
                  /\ by' = ""
                  /\ IF Route(r.path) \in {"mp4ProxyHandler", "fetchHandler"}
                     THEN /\ phase' = "received"
                          /\ chain' \in 0..1
                     ELSE /\ phase' = "idle"
                          /\ chain' = 0
    /\ hops' = MaxHops
    /\ UNCHANGED <<concurrentVars, build, allowedOrigins, followed, outbound, upstream,
                   served, direct, gets, redirects, callerGone>>

NextServer ==
    \/ ServerRequest
    \/ M3U8Proxy
    \/ TSProxy
    \/ UniversalHLSProxy
    \/ FileProxy
    \/ Mp4Proxy
    \/ Fetch
    \/ OriginRedirects
    \/ OriginAnswers
    \/ OriginFails
    \/ ClientTimeout
    \/ StreamBody
    \/ CallerDisconnects

SpecServer == InitServer /\ [][NextServer]_vars

(***************************************************************************)
(* Requests handled at the same time.  net/http runs the handler of each   *)
(* request in a goroutine of its own; the goroutines share webServerURL    *)
(* and allowedOrigins, which main has written, and the client's            *)
(* connections.  A step is what one goroutine does between two points      *)
(* where another may run.                                                  *)
(***************************************************************************)
\* requests in hand at the same time
MaxWorkers == 3

Workers == 1..MaxWorkers

IdleSlot ==
    [phase |-> "idle", request |-> None, upstream |-> None, result |-> None,
     overlapped |-> FALSE]

\* two playlists of one origin, in different directories
ConcurrentRequests(family) ==
    IF family = "handlers"
    THEN {[path |-> "/proxy",
           query |-> "url=" \o QueryEscape(OriginHost \o "/p.m3u8")],
          [path |-> "/proxy",
           query |-> "url=" \o QueryEscape(OriginHost \o "/d/q.m3u8")]}
    ELSE LET prefix == IF family = "v3" THEN "/hls-playback/" ELSE "/file1/" IN
         {[path |-> prefix \o "p.m3u8",
           query |-> "host=" \o QueryEscape(OriginHost)],
          [path |-> prefix \o "d/q.m3u8",
           query |-> "host=" \o QueryEscape(OriginHost)]}

\* what the origin answers: a playlist of one segment, or nothing
ConcurrentAnswers ==
    {Answered(200, "", "", "#EXTM3U\ns.ts"),
     [err |-> TRUE, status |-> 0, ctype |-> "", encoding |-> "", body |-> ""]}

\* a handler that takes its request from where the server put the last one
requestOfShared(i) ==
    IF inbound # None THEN inbound ELSE slots[i].request

\* the r *http.Request of goroutine i: the handler's own parameter
requestOf(i) == slots[i].request

\* routeHandler and the handler it calls
Handle(r, up) ==
    IF Route(r.path) = "m3u8ProxyHandler"
    THEN IF build.rev = 1 THEN m3u8ProxyHandler(r, up)
         ELSE m3u8ProxyHandler_r2(r, up)
    ELSE IF Route(r.path) = "universalHLSProxyHandler"
    THEN universalHLSProxyHandler(r, up, build.rev)
    ELSE fileProxyHandler(r, up, build.rev)

InFlight(i) == slots[i].phase \in {"arrived", "replied"}

InitConcurrent ==
    /\ build \in Builds
    /\ allowedOrigins = allowedOriginsOf("https://a.x, https://b.x")
    /\ slots = [i \in Workers |-> IdleSlot]
    /\ idle = 0
    /\ inbound = None
    /\ followed = None
    /\ outbound = None
    /\ upstream = None
    /\ response = None
    /\ by = ""
    /\ served = None
    /\ direct = ""
    /\ hops = 0
    /\ phase = "idle"
    /\ gets = 0
    /\ redirects = 0
    /\ chain = 0
    /\ callerGone = FALSE
    /\ caller = None
    /\ written = None

\* the server accepts a request and starts goroutine i for it; the requests
\* already in hand are now handled together with it
Arrive(i) ==
    /\ slots[i].phase = "idle"
    /\ \E r \in ConcurrentRequests(build.family) :
          /\ inbound' = r
          /\ slots' = [j \in Workers |->
                          IF j = i
                          THEN [phase |-> "arrived", request |-> r, upstream |-> None,
                                result |-> None,
                                overlapped |-> \E k \in Workers : InFlight(k)]
                          ELSE IF InFlight(j)
                          THEN [slots[j] EXCEPT !.overlapped = TRUE]
                          ELSE slots[j]]
    /\ UNCHANGED <<idle, serverVars, build, followed, outbound, upstream, response, by,
                   served, direct, hops, exchangeVars>>

\* the origin answers the fetch of goroutine i, which went over a
\* connection the client kept, if it kept one
OriginReplies(i) ==
    /\ slots[i].phase = "arrived"
    /\ \E up \in ConcurrentAnswers :
          slots' = [slots EXCEPT ![i].phase = "replied", ![i].upstream = up]
    /\ idle' = IF idle > 0 THEN idle - 1 ELSE 0
    /\ UNCHANGED <<serverVars, build, inbound, followed, outbound, upstream, response,
                   by, served, direct, hops, exchangeVars>>

\* goroutine i runs its handler to the end, and the connection of a fetch
\* that was answered goes back to the client
Complete(i) ==
    /\ slots[i].phase = "replied"
    /\ Handle(requestOf(i), slots[i].upstream)
    /\ slots' = [slots EXCEPT ![i].phase = "done",
                              ![i].result = [outbound |-> outbound',
                                             response |-> response',
                                             served |-> served']]
    /\ idle' = IF slots[i].upstream.err THEN idle ELSE idle + 1

Arrives == \E i \in Workers : Arrive(i)

Replies == \E i \in Workers : OriginReplies(i)

Completes == \E i \in Workers : Complete(i)

NextConcurrent ==
    \/ Arrives
    \/ Replies
    \/ Completes

SpecConcurrent == InitConcurrent /\ [][NextConcurrent]_vars

(***************************************************************************)
(* Properties                                                              *)
(***************************************************************************)
\* C1: in every playlist a rewrite handler serves, every reference a player
\* can fetch (a bare line, or the quoted URI of a directive) starts with the
\* relay's base URL, so a player that follows the playlists it is served
\* never sends a request that bypasses the relay.
AllReferencesRelayed ==
    /\ served # None =>
          \A j \in 1..Len(served.newLines) :
              \E link \in {Reference(served.newLines[j])} :
                  link = "" \/ HasPrefix(link, webServerURL)
    /\ direct = ""

\* C2: when the body a playlist rewrite handler fetched does not begin with
\* #EXTM3U after its leading whitespace, the handler answers with an error
\* and writes no rewritten playlist.
NonPlaylistBodyIsAnError ==
    ( /\ upstream # None
      /\ by \in {"m3u8ProxyHandler", "handleUniversalM3U8Proxy", "handleFileM3U8Proxy"}
      /\ ~upstream.err
      /\ ~HasPrefix(TrimLeftSpace(upstream.body), "#EXTM3U") )
        => response.status >= 400 /\ served = None

\* C3: when a player requests the relay link written for a reference R of a
\* playlist fetched from P, the handler's outbound fetch goes to R resolved
\* against P, in both link formats.  R ranges over the references that net/url
\* writes back as they are, so that no escaping is in question.
TargetRoundTrip ==
    ( /\ followed # None
      /\ response # None
      /\ URLString(ParseURL(followed.ref)) = followed.ref )
        => /\ outbound # None
           /\ outbound.url =
                  URLString(ResolveReference(ParseURL(followed.base),
                                             ParseURL(followed.ref)))

\* C4: when a player requests a relay link of a playlist fetched with the
\* headers H, the handler's outbound fetch carries exactly H.
HeaderRoundTrip ==
    (followed # None /\ response # None)
        => outbound # None /\ outbound.headers = followed.headers

\* C5: every line written that is not blank and carries no relay link is, byte
\* for byte, the line of the body it came from.
UnrewrittenLinesIdentical ==
    served # None =>
        \A j \in 1..Len(served.newLines) :
            (TrimSpace(served.newLines[j]) # ""
                 /\ ~Contains(served.newLines[j], webServerURL))
                => served.newLines[j] = served.lines[served.from[j]]

\* C6: a directive with a quoted URI="..." that is rewritten differs from the
\* line of the body only between the quotes of that URI, where it has a relay
\* link.
OnlyQuotedURIReplaced ==
    served # None =>
        \A j \in 1..Len(served.newLines) :
            \E line \in {served.lines[served.from[j]]} :
            \E new \in {served.newLines[j]} :
            \E o \in {originalURI(line)} :
                (HasPrefix(TrimSpace(line), "#") /\ o.found /\ new # line)
                    => \E uriStart \in {Index(line, "URI=\"") + 5} :
                       \E before \in {Slice(line, 0, uriStart)} :
                       \E after \in {Slice(line, uriStart + Len(o.uri), Len(line))} :
                           /\ HasPrefix(new, before)
                           /\ HasSuffix(new, after)
                           /\ Len(new) >= Len(before) + Len(after)
                           /\ HasPrefix(Slice(new, Len(before), Len(new) - Len(after)),
                                        webServerURL)
                           /\ ~Contains(Slice(new, Len(before), Len(new) - Len(after)),
                                        "\"")

\* C7: in a master playlist served by handleUniversalM3U8Proxy, a bare line is
\* rewritten only when the line before it is an EXT-X-STREAM-INF, EXT-X-MEDIA
\* or EXT-X-I-FRAME-STREAM-INF directive; any other bare line, a second bare
\* line in a row included, is written as it was.
MasterGating ==
    ( /\ served # None
      /\ served.handler = "handleUniversalM3U8Proxy"
      /\ \E i \in 1..Len(served.lines) :
             HasPrefix(TrimSpace(served.lines[i]), "#EXT-X-STREAM-INF") )
        => \A j \in 1..Len(served.newLines) :
               \E i \in {served.from[j]} :
               \E trimmed \in {TrimSpace(served.lines[i])} :
                   (trimmed # "" /\ ~HasPrefix(trimmed, "#")
                        /\ served.newLines[j] # served.lines[i])
                       => /\ i > 1
                          /\ \E tag \in StreamTags :
                                 HasPrefix(TrimSpace(served.lines[i - 1]),
                                           "#" \o tag \o ":")

\* C8: for a reference R that is relative and does not start with '/', in a
\* playlist fetched from B, the resource path of the relay link written, which
\* is the path the relay fetches when the link is requested, is the directory
\* of B followed by R, at every depth of B, in the three rewrite handlers.  R
\* ranges over the references that net/url writes back as they are.
RelativeReferenceUnderDirectory ==
    ( /\ followed # None
      /\ response # None
      /\ followed.ref # ""
      /\ ~HasPrefix(followed.ref, "/")
      /\ ~IsAbsolute(followed.ref)
      /\ URLString(ParseURL(followed.ref)) = followed.ref )
        => /\ outbound # None
           /\ ParseURL(outbound.url).path =
                  ResolveReference(ParseURL(followed.base),
                                   ParseURL(followed.ref)).path

\* C9: for a reference R that starts with '/', in a playlist fetched from B,
\* the target of the relay link written has the scheme and host of B and
\* the path R, in every rewrite variant.
RootedReferenceReplacesPath ==
    (followed # None /\ response # None /\ HasPrefix(followed.ref, "/"))
        => /\ outbound # None
           /\ \E u \in {ParseURL(outbound.url)} :
              \E B \in {ParseURL(followed.base)} :
                  /\ u.ok
                  /\ u.scheme = B.scheme
                  /\ u.host = B.host
                  /\ u.path = followed.ref

\* C10: when a player requests the relay link written for a reference that is
\* an absolute URL on another host than the playlist's, the handler fetches
\* from that host, at that URL's path, and not from the playlist's host.
OtherHostFetchedFromOtherHost ==
    (followed # None /\ response # None /\ HasPrefix(followed.ref, OtherHost))
        => /\ outbound # None
           /\ \E u \in {ParseURL(outbound.url)} :
              \E want \in {ParseURL(followed.ref)} :
                  u.ok /\ u.scheme = want.scheme /\ u.host = want.host
                       /\ u.path = want.path

\* C11: a reference that url.Parse refuses is written as the line of the body
\* it stands on, without a relay link around it, while the other lines are
\* rewritten as usual.
UnresolvableReferenceLeftAsIs ==
    served # None =>
        \A j \in 1..Len(served.newLines) :
            \E line \in {served.lines[served.from[j]]} :
            \E ref \in {Reference(line)} :
                (ref # "" /\ ~ParseURL(ref).ok) => served.newLines[j] = line

\* C12: every override with a value that a caller of a handler that reads
\* overrides supplies is, on the outbound request, the value of the header it
\* names, also when the name differs in letter case from the name of a
\* default header, whatever the order the header map is ranged over in.
OverridesWinOnTheWire ==
    ( /\ phase # "idle"
      /\ outbound # None
      /\ ~(by = "fetchHandler" /\ build.rev = 1) )
        => \E overrides \in {parseHeadersParam(inbound.query)} :
               \A k \in DOMAIN overrides :
                   overrides[k] # ""
                       => outbound.wire[CanonicalMIMEHeaderKey(k)] = overrides[k]

\* the host names no rule of any generateRequestHeaders mentions
MatchesNoPattern(hostname) ==
    \A d \in videostrDomains \cup {"example.com", "cdn", "stream"} :
        ~Contains(hostname, d)

\* C13: the headers generateRequestHeaders returns have the baseline headers,
\* a Referer and an Origin, and for a target whose host no rule names, without
\* overrides, the Referer and the Origin are the target's scheme and host.
CompleteHeaderSet ==
    (phase # "idle" /\ outbound # None)
        => /\ {"User-Agent", "Accept", "Accept-Language", "Accept-Encoding",
               "Connection", "Referer", "Origin"} \subseteq DOMAIN outbound.headers
           /\ \E u \in {ParseURL(outbound.url)} :
                  ( /\ MatchesNoPattern(ToLower(Hostname(u.host)))
                    /\ parseHeadersParam(inbound.query) = EmptyHeaders
                    /\ inbound.range = ""
                    /\ QueryGet(inbound.query, "ref") = "" )
                      => /\ outbound.headers["Referer"]
                                = u.scheme \o "://" \o u.host \o "/"
                         /\ outbound.headers["Origin"] = u.scheme \o "://" \o u.host

\* C14: the outbound request of a container request that came with a Range
\* header carries that Range when the overrides have none, and the Range of
\* the overrides when they have one.
InboundRangeForwarded ==
    (phase # "idle" /\ outbound # None /\ inbound.range # "")
        => \E overrides \in {parseHeadersParam(inbound.query)} :
               /\ "Range" \in DOMAIN outbound.wire
               /\ outbound.wire["Range"] =
                      IF "Range" \in DOMAIN overrides THEN overrides["Range"]
                      ELSE inbound.range

\* C15: the response of mp4ProxyHandler has the status of the upstream's
\* response, its Content-Range and Content-Length when it sent them, and its
\* Accept-Ranges, or bytes when it sent none.
ContainerResponseMirrorsUpstream ==
    (by = "mp4ProxyHandler" /\ upstream # None /\ ~upstream.err)
        => /\ response.status = upstream.status
           /\ \A h \in {"Content-Range", "Content-Length"} :
                  upstream.header[h] # ""
                      => /\ h \in DOMAIN response.header
                         /\ response.header[h] = upstream.header[h]
           /\ response.header["Accept-Ranges"] =
                  IF upstream.header["Accept-Ranges"] # ""
                  THEN upstream.header["Accept-Ranges"]
                  ELSE "bytes"

\* mp4ProxyHandler answers a partial response of the upstream in full
ContainerResponseWitness ==
    /\ by = "mp4ProxyHandler"
    /\ phase = "done"
    /\ upstream # None
    /\ ~upstream.err
    /\ upstream.status = 206
    /\ response.complete
    /\ response.header["Content-Range"] = "bytes 100-199/1000"

\* C16: a fetch the origin answers with n redirects and then a response is
\* followed to that response when n is at most 5, 5 included, and ends with an
\* error, which the caller is told, when n is more than 5.
RedirectsFollowedUpToFive ==
    (phase # "idle" /\ upstream # None)
        => /\ (upstream.err /\ upstream.reason = "stopped after 5 redirects")
                  => chain > RedirectLimit
           /\ ~upstream.err => chain <= RedirectLimit
           /\ upstream.err => response.status >= 400

\* C17: when the origin answers a playlist fetch with a status that is not a
\* success, the caller gets an error response and no playlist is rewritten.
NonSuccessPlaylistIsAnError ==
    ( /\ upstream # None
      /\ by \in {"m3u8ProxyHandler", "handleUniversalM3U8Proxy", "handleFileM3U8Proxy"}
      /\ ~upstream.err
      /\ ~(upstream.status \in 200..299) )
        => response.status >= 400 /\ served = None

EveryFetchHasADeadline ==
    phase \in {"pending", "streaming"} => ENABLED ClientTimeout

\* C20: once the caller of a request has disconnected, the exchange of that
\* request is over: the fetch or the copy has ended and the handler has
\* returned, which closes the upstream's response.
DisconnectEndsTheExchange ==
    callerGone => phase = "done"

\* C22: every playlist a handler rewrote is answered with the Content-Type
\* application/vnd.apple.mpegurl, whatever the origin declared, in every
\* revision of the handlers.
PlaylistContentType ==
    served # None
        => /\ response.status = 200
           /\ response.ctype = "application/vnd.apple.mpegurl"

\* C29: m3u8ProxyHandler and handleUniversalM3U8Proxy write one line for every
\* line they read, in the order read, and a blank line as it was;
\* handleFileM3U8Proxy writes the same sequence without the blank lines.
LineStructurePreserved ==
    served # None
        => /\ \A j \in 1..(Len(served.from) - 1) : served.from[j] < served.from[j + 1]
           /\ Len(served.newLines) = Len(served.from)
           /\ served.handler \in {"m3u8ProxyHandler", "handleUniversalM3U8Proxy"}
                  => /\ served.from = EveryLine(served.lines)
                     /\ \A i \in 1..Len(served.lines) :
                            TrimSpace(served.lines[i]) = ""
                                => served.newLines[i] = served.lines[i]
           /\ served.handler = "handleFileM3U8Proxy"
                  => served.from = NonBlankFrom(served.lines, 1)

\* the lines a playlist handler writes when it is run on the lines it wrote
\* (m3u8ProxyHandler and handleUniversalM3U8Proxy, by their revision), with
\* the target and the headers of the first run
RewrittenAgain(s) ==
    LET encodedHeaders == QueryEscape(JSONMarshal(s.headers))
        basePath == basePathOf(TrimPrefix(TrimPrefix(s.base, TrimSuffix(s.host, "/")),
                                          s.prefix))
        Universal2(line) ==
            IF HasPrefix(line, "#")
            THEN IF Contains(line, "URI=")
                 THEN processUniversalKeyURI(line, s.host, basePath, s.prefix,
                                             encodedHeaders)
                 ELSE line
            ELSE IF TrimSpace(line) # ""
            THEN processUniversalSegmentURL(line, s.host, basePath, s.prefix,
                                            encodedHeaders)
            ELSE line
    IN  IF s.handler = "m3u8ProxyHandler"
        THEN [j \in 1..Len(s.newLines) |->
                 IF build.rev = 1 THEN proxyLine(s.newLines[j], s.base, s.headers)
                 ELSE proxyLine_r2(s.newLines[j], s.base, encodedHeaders)]
        ELSE IF build.rev = 1
        THEN universalLines(s.newLines, 1, "",
                 [isMaster |-> Contains(Join(s.newLines, "\n"), "#EXT-X-STREAM-INF:"),
                  targetURL |-> s.base, host |-> s.host, basePath |-> basePath,
                  prefix |-> s.prefix, headersParam |-> encodedHeaders])
        ELSE [j \in 1..Len(s.newLines) |-> Universal2(s.newLines[j])]

\* C26: when the rewrite is run again on a playlist it has rewritten, every
\* line that holds a relay link, bare or as the URI value of a directive, is
\* written as it is.
RelayLinksStable ==
    (served # None
     /\ served.handler \in {"m3u8ProxyHandler", "handleUniversalM3U8Proxy"})
        => \E again \in {RewrittenAgain(served)} :
               \A j \in 1..Len(served.newLines) :
                   Contains(served.newLines[j], webServerURL)
                       => again[j] = served.newLines[j]

\* the text of a body the origin sent in an encoding, as a client that
\* understands the encoding reads it
DecodedBody(encoding, body) ==
    IF encoding = "gzip" THEN gunzip(body)
    ELSE IF encoding = "deflate"
    THEN IF HasPrefix(body, "x")
         THEN [ok |-> TRUE, s |-> Reverse(TrimPrefix(body, "x"))]
         ELSE [ok |-> FALSE, s |-> ""]
    ELSE [ok |-> TRUE, s |-> body]

PlaylistHandlers ==
    {"m3u8ProxyHandler", "handleUniversalM3U8Proxy", "handleFileM3U8Proxy"}

SegmentHandlers ==
    {"tsProxyHandler", "handleUniversalSegmentProxy", "handleFileSegmentProxy"}

\* C21: when the upstream answers a playlist fetch with Content-Encoding gzip,
\* the handler rewrites the lines of the decompressed text; when the body
\* cannot be decompressed, it answers with an internal error and no playlist.
GzipPlaylistDecoded ==
    (upstream # None /\ ~upstream.err /\ upstream.status = 200
     /\ upstream.encoding = "gzip" /\ by \in PlaylistHandlers)
        => \E text \in {gunzip(upstream.body)} :
               /\ (text.ok /\ HasPrefix(text.s, "#EXTM3U"))
                      => /\ served # None
                         /\ served.lines = Split(text.s, "\n")
               /\ ~text.ok => (response.status = 500 /\ served = None)

\* C30: for every encoding the outbound Accept-Encoding names, a playlist the
\* upstream sent in that encoding is rewritten from its decoded text, and a
\* segment the upstream sent in that encoding is answered decoded or with the
\* upstream's Content-Encoding.
AdvertisedEncodingsUnderstood ==
    (upstream # None /\ ~upstream.err /\ upstream.status = 200
     /\ upstream.encoding # ""
     /\ Contains(outbound.headers["Accept-Encoding"], upstream.encoding))
        => \E text \in {DecodedBody(upstream.encoding, upstream.body)} :
               /\ (by \in PlaylistHandlers /\ text.ok /\ HasPrefix(text.s, "#EXTM3U"))
                      => /\ served # None
                         /\ served.lines = Split(text.s, "\n")
               /\ (by \in SegmentHandlers /\ text.ok)
                      => \/ response.encoding = upstream.encoding
                         \/ response.body = text.s
\* C24: with a list of allowed origins no response of a routed endpoint
\* carries an Access-Control-Allow-Origin that admits an origin outside the
\* list; without a list every response carries "*"; a preflight request is
\* answered with 200 by corsMiddleware, with no handler run and no fetch
CORSWhitelist ==
    (caller # None /\ Wrapped(caller.path) /\ response # None)
        => /\ Len(allowedOrigins) > 0
               => ("Access-Control-Allow-Origin" \in DOMAIN wroteHeader
                      => contains(allowedOrigins,
                                  wroteHeader["Access-Control-Allow-Origin"]))
           /\ Len(allowedOrigins) = 0
               => /\ "Access-Control-Allow-Origin" \in DOMAIN wroteHeader
                  /\ wroteHeader["Access-Control-Allow-Origin"] = "*"
           /\ caller.method = "OPTIONS"
               => /\ response.status = 200
                  /\ by = "corsMiddleware"
                  /\ outbound = None

\* a request that names no target: no url parameter on the endpoints of
\* routeHandler, no host parameter or nothing after the prefix elsewhere
NoTarget(r) ==
    IF Wrapped(r.path) THEN QueryGet(r.query, "url") = ""
    ELSE \/ QueryGet(r.query, "host") = ""
         \/ Len(SplitN2(TrimPrefix(r.path, "/"), "/")) < 2
         \/ SplitN2(TrimPrefix(r.path, "/"), "/")[2] = ""

\* C27: a request without a target reference is answered with 400 by its
\* handler, and no outbound request is made for it
BadInputRejected ==
    (caller # None /\ NoTarget(caller) /\ by \notin {"", "corsMiddleware"})
        => /\ response # None
           /\ response.status = 400
           /\ outbound = None
           /\ upstream = None
           /\ gets = 0

\* a handler has refused a request that names no target
BadInputWitness ==
    /\ caller # None
    /\ NoTarget(caller)
    /\ by \in {"m3u8ProxyHandler", "tsProxyHandler", "mp4ProxyHandler",
               "fetchHandler", "universalHLSProxyHandler", "fileProxyHandler"}
    /\ response # None
    /\ response.status = 400
    /\ outbound = None

\* a request whose headers parameter cannot be unescaped or is not JSON
MalformedParam(r) ==
    LET Unescaped(headersParam, decodedHeaders) ==
            /\ headersParam # ""
            /\ ~decodedHeaders.ok \/ decodedHeaders.s \in MalformedHeaders
        Param(headersParam) == Unescaped(headersParam, QueryUnescape(headersParam))
    IN  Param(QueryGet(r.query, "headers"))

\* the headers the build gives a request to targetURL that overrides nothing
DefaultHeadersFor(targetURL) ==
    IF build.family = "handlers"
    THEN requestHeadersOf(build.rev, targetURL, EmptyHeaders)
    ELSE generateRequestHeaders(targetURL, EmptyHeaders)

\* C28: a request whose headers parameter is malformed goes on to its
\* target, and its outbound request carries the default headers of the
\* target and nothing else
MalformedHeadersIgnored ==
    (caller # None /\ MalformedParam(caller) /\ ~NoTarget(caller)
        /\ by \notin {"", "corsMiddleware"})
        => /\ outbound # None
           /\ outbound.headers = DefaultHeadersFor(outbound.url)

\* the origin has answered a request whose headers parameter was malformed
MalformedHeadersWitness ==
    /\ caller # None
    /\ MalformedParam(caller)
    /\ by \notin {"", "corsMiddleware"}
    /\ outbound # None
    /\ upstream # None
    /\ response # None
    /\ response.status = 200

\* the type the suffix of a path stands for
SuffixType(path) ==
    LET Lower(lowerPath) ==
            IF HasSuffix(lowerPath, ".ts") THEN "video/mp2t"
            ELSE IF HasSuffix(lowerPath, ".m3u8") THEN "application/vnd.apple.mpegurl"
            ELSE IF HasSuffix(lowerPath, ".jpg") \/ HasSuffix(lowerPath, ".jpeg")
            THEN "image/jpeg"
            ELSE IF HasSuffix(lowerPath, ".png") THEN "image/png"
            ELSE IF HasSuffix(lowerPath, ".gif") THEN "image/gif"
            ELSE IF HasSuffix(lowerPath, ".webp") THEN "image/webp"
            ELSE IF HasSuffix(lowerPath, ".bmp") THEN "image/bmp"
            ELSE IF HasSuffix(lowerPath, ".svg") THEN "image/svg+xml"
            ELSE "application/octet-stream"
    IN  Lower(ToLower(path))

\* C23: a relayed segment has the Content-Type the origin sent, and without
\* one the type of the suffix of the target's path, whatever the query is
\* and whatever the path contains before its end
SegmentContentType ==
    (caller # None /\ by \in SegmentHandlers /\ upstream # None /\ ~upstream.err
        /\ response # None)
        => response.ctype = IF upstream.ctype # "" THEN upstream.ctype
                            ELSE SuffixType(CutBefore(outbound.url, "?"))

\* two goroutines have finished the same request with the same answer of
\* the origin
SameWork(i, j) ==
    /\ slots[i].phase = "done"
    /\ slots[j].phase = "done"
    /\ slots[i].request = slots[j].request
    /\ slots[i].upstream = slots[j].upstream

IndependentResults ==
    \A i, j \in DOMAIN slots :
        SameWork(i, j) => slots[i].result = slots[j].result

====
